---------------------------- MODULE Spec2Model ----------------------------
(***************************************************************************)
(* A model of enarx-wasmldr: the bundle codec (src/src/bundle.rs), the     *)
(* tar-backed virtual filesystem (src/src/virtfs.rs), the workload runtime *)
(* adapter (src/src/workload.rs), the attestation pseudo-syscall           *)
(* (src/src/attestation.rs) and the HTTPS loader front-end                 *)
(* (src/src/main.rs).                                                      *)
(*                                                                         *)
(* Each component has its own specification over the shared variables:     *)
(*   SpecBundle   Builder::build followed by a parse of what it wrote      *)
(*   SpecCreate   Builder::create_archive, then build                      *)
(*   SpecCut      parse of a module cut short                              *)
(*   SpecVfs      populate / lookup / pread on an archive                  *)
(*   SpecPopulate populate over every kind of path                         *)
(*   SpecFile     the FileContents calls on a populated tree               *)
(*   SpecRun      workload::run and the exit of the loader                 *)
(*   SpecLoader   main, payload_load, Trigger::do_trig                     *)
(*   SpecAttest   attest                                                   *)
(*   SpecKey      retrieve_existing_key and generate_credentials           *)
(* Spec is their union: the initial state picks the component.             *)
(***************************************************************************)
EXTENDS Integers, Sequences, FiniteSets, TLC

VARIABLES
    \* ---- bundle codec
    bmod,       \* the structure the input module was serialised from (ghost)
    bsection,   \* Builder.section resolved: the section name build/parse use
    barchive,   \* bytes of the temporary archive create_archive wrote
    bfirst,     \* what an earlier build wrote, when build runs on it again
    ca,         \* Builder's paths and prefix, and create_archive's position
    bpc,        \* position in Builder::build and in the parse that follows
    ps,         \* the locals of the running parse() call
    output,     \* bytes written so far to build's `output`
    apos,       \* read position in the archive inside append_archive
    \* ---- virtual filesystem
    archive,    \* the tar archive (entry codes, see TarEntries)
    root,       \* the TarDirEntry tree
    vpc,        \* position of the populate loop / of the reader
    vnext,      \* index of the next archive entry to populate
    rd,         \* the last pread or preadv call and its result
    wr,         \* the size, resize, pwrite or pwritev call since, and its result
    sq,         \* a sequential reader: file, position, bytes read so far
    \* ---- attestation
    att,        \* the last attest() call: registers and result
    key,        \* retrieve_existing_key and generate_credentials
    \* ---- loader front-end
    hpc,        \* per request: position in payload_load
    hbody,      \* per request: the POST body
    mutex,      \* holder of the workload mutex: <<>> when free
    slot,       \* Workload.wasm_binary behind the mutex
    writes,     \* ghost: the successive values written to the slot
    chan,       \* number of messages buffered in the trigger channel
    rxopen,     \* the receiver half still exists
    srv,        \* state of the warp server future
    mpc,        \* position of main
    ran,        \* the bytes handed to workload::run, once it has begun
    \* ---- workload::run
    rpc,        \* position of run
    rcfg,       \* deploy_config: Option<Config>
    rerr,       \* the Error run returned, "" while it has returned none
    rstdio,     \* what the WasiCtxBuilder was given for stdin, stdout, stderr
    inst,       \* the module has been compiled and linked
    guest,      \* guest code has been called
    exit,       \* how the loader process ended once run was over
    \* ---- which component this behaviour exercises
    comp

bundleVars == <<bmod, bsection, barchive, bfirst, ca, bpc, ps, output, apos>>
vfsVars    == <<archive, root, vpc, vnext, rd, wr, sq>>
attestVars == <<att, key>>
loaderVars == <<hpc, hbody, mutex, slot, writes, chan, rxopen, srv, mpc, ran>>
runVars    == <<rpc, rcfg, rerr, rstdio, inst, guest>>
vars == <<bundleVars, vfsVars, attestVars, loaderVars, runVars, exit, comp>>

(***************************************************************************)
(* Small helpers over sequences of bytes.                                  *)
(***************************************************************************)
Min(a, b) == IF a < b THEN a ELSE b
Max(a, b) == IF a > b THEN a ELSE b

Drop(s, n) == SubSeq(s, n + 1, Len(s))
Take(s, n) == SubSeq(s, 1, Min(n, Len(s)))

RECURSIVE Concat(_)
Concat(ss) == IF ss = <<>> THEN <<>> ELSE Head(ss) \o Concat(Tail(ss))


(***************************************************************************)
(* The WebAssembly binary format, as far as the codec reads it: the eight  *)
(* header bytes, then sections `id, ULEB128 length, contents`.  A module   *)
(* is described by the sequence of its sections; EncMod serialises it.     *)
(* The model's inputs are serialisations, so that parse works on bytes     *)
(* while the expected results are computed from the structure.             *)
(***************************************************************************)
WasmMagic   == <<0, 97, 115, 109>>
WasmVersion == <<1, 0, 0, 0>>
WasmHeader  == WasmMagic \o WasmVersion

\* leb128::write::unsigned: seven bits per byte, low group first, the high
\* bit set on every byte but the last.
RECURSIVE Leb(_)
Leb(n) == IF n < 128 THEN <<n>> ELSE <<(n % 128) + 128>> \o Leb(n \div 128)

CustomSec(name, data) ==
    [k |-> "custom", id |-> 0, name |-> name, data |-> data, items |-> <<>>]
PlainSec(id, data) ==
    [k |-> "plain", id |-> id, name |-> <<>>, data |-> data, items |-> <<>>]
CodeSec(bodies) ==
    [k |-> "code", id |-> 10, name |-> <<>>, data |-> <<>>, items |-> bodies]
ModuleCodeSec(mods) ==
    [k |-> "modcode", id |-> 17, name |-> <<>>, data |-> <<>>, items |-> mods]

RECURSIVE EncMod(_), EncSec(_)
EncSec(s) ==
    LET framed(c) == <<s.id>> \o Leb(Len(c)) \o c
    IN  CASE s.k = "custom" -> framed(Leb(Len(s.name)) \o s.name \o s.data)
          [] s.k = "plain"  -> framed(s.data)
          [] s.k = "code"   ->
                framed(Leb(Len(s.items)) \o
                       Concat([i \in 1..Len(s.items) |->
                                  Leb(Len(s.items[i])) \o s.items[i]]))
          [] s.k = "modcode" ->
                framed(Leb(Len(s.items)) \o
                       Concat([i \in 1..Len(s.items) |->
                                  Leb(Len(EncMod(s.items[i]))) \o EncMod(s.items[i])]))
EncMod(m) == WasmHeader \o Concat([i \in 1..Len(m) |-> EncSec(m[i])])

(***************************************************************************)
(* wasmparser's streaming Parser, the library parse() drives.  A parser is *)
(* its state (ModuleHeader, SectionStart, FunctionBody{remaining,len},     *)
(* ModuleCode{remaining,len}) and its max_size (u64::MAX at top level: the *)
(* `limited` flag is FALSE; the size of the nested module otherwise).      *)
(* ParserParse answers NeedMoreData(hint), Parsed{consumed,payload} or an  *)
(* error, as Parser::parse does for the buffer it is shown.                *)
(***************************************************************************)
NewParser ==
    [st |-> "ModuleHeader", remaining |-> 0, len |-> 0, limited |-> FALSE, max |-> 0]

SubParser(size) ==
    [st |-> "ModuleHeader", remaining |-> 0, len |-> 0, limited |-> TRUE, max |-> size]

NeedR(h) ==
    [res |-> "need", hint |-> h, pos |-> 0, kind |-> "", name |-> <<>>,
     data |-> <<>>, sub |-> NewParser, next |-> NewParser]
ErrR ==
    [res |-> "err", hint |-> 0, pos |-> 0, kind |-> "", name |-> <<>>,
     data |-> <<>>, sub |-> NewParser, next |-> NewParser]
ParsedR(pos, kind, name, data, sub, next) ==
    [res |-> "ok", hint |-> 0, pos |-> pos, kind |-> kind, name |-> name,
     data |-> data, sub |-> sub, next |-> next]

\* BinaryReader::read_var_u32 from position p (bytes already read) of d:
\* at most five bytes; running out of bytes is an eof error that hints 1.
RECURSIVE VarGo(_, _, _, _, _)
VarGo(d, p, k, acc, mult) ==
    IF p >= Len(d) THEN [st |-> "eof", val |-> 0, pos |-> p]
    ELSE LET b == d[p + 1] IN
         IF k = 4 /\ (b % 128) >= 16 THEN [st |-> "bad", val |-> 0, pos |-> p]
         ELSE IF b < 128 THEN [st |-> "ok", val |-> acc + b * mult, pos |-> p + 1]
         ELSE IF k = 4 THEN [st |-> "bad", val |-> 0, pos |-> p]
         ELSE VarGo(d, p + 1, k + 1, acc + (b % 128) * mult, mult * 128)

ReadVarU32(d, p) == VarGo(d, p, 0, 0, 1)

\* State::ModuleHeader: read_file_header, the magic then the version.
ReadFileHeader(p, d) ==
    IF Len(d) < 4 THEN NeedR(4 - Len(d))
    ELSE IF SubSeq(d, 1, 4) # WasmMagic THEN ErrR
    ELSE IF Len(d) < 8 THEN NeedR(8 - Len(d))
    ELSE IF SubSeq(d, 5, 8) # WasmVersion THEN ErrR
    ELSE ParsedR(8, "Version", <<>>, <<>>, NewParser, [p EXCEPT !.st = "SectionStart"])

\* State::SectionStart: End at a clean end of input, else one section header
\* and, by id, the whole section or the start of a code / module code section.
ReadSection(p, d, eof) ==
    LET \* a custom section's contents: the name, then the payload
        custom(fin, content, nl) ==
            IF nl.st # "ok" \/ nl.pos + nl.val > Len(content) THEN ErrR
            ELSE ParsedR(fin, "CustomSection",
                         SubSeq(content, nl.pos + 1, nl.pos + nl.val),
                         Drop(content, nl.pos + nl.val), NewParser, p)
        \* a code or module code section: the count `c` of its entries
        start(id, l, c) ==
            IF c.st = "eof" THEN NeedR(1)
            ELSE IF c.st = "bad" \/ c.pos - l.pos > l.val THEN ErrR
            ELSE ParsedR(c.pos,
                         IF id = 10 THEN "CodeSectionStart"
                                    ELSE "ModuleCodeSectionStart",
                         <<>>, <<>>, NewParser,
                         [p EXCEPT !.st = IF id = 10 THEN "FunctionBody"
                                                     ELSE "ModuleCode",
                                   !.remaining = c.val,
                                   !.len = l.val - (c.pos - l.pos)])
        \* the section whose id and length `l` were read; it ends at `fin`
        section(id, l, fin) ==
            IF l.st = "eof" THEN NeedR(1)
            ELSE IF l.st = "bad" THEN ErrR
            ELSE IF p.limited /\ p.max < fin THEN ErrR
            ELSE IF id = 10 \/ id = 17 THEN start(id, l, ReadVarU32(d, l.pos))
            ELSE IF Len(d) < fin THEN NeedR(fin - Len(d))
            ELSE IF id = 0
                 THEN custom(fin, SubSeq(d, l.pos + 1, fin),
                             ReadVarU32(SubSeq(d, l.pos + 1, fin), 0))
            ELSE ParsedR(fin, "Section", <<>>, <<>>, NewParser, p)
        header(l) == section(d[1], l, l.pos + l.val)
    IN  IF eof /\ Len(d) = 0 THEN ParsedR(0, "End", <<>>, <<>>, NewParser, p)
        ELSE IF Len(d) = 0 THEN NeedR(1)
        ELSE IF d[1] >= 128 THEN ErrR
        ELSE header(ReadVarU32(d, 1))

\* State::FunctionBody{remaining, len}: one size-prefixed function body.
ReadFunctionBody(p, d) ==
    LET body(s, used) ==
            IF p.remaining = 0 THEN ErrR
            ELSE IF s.st = "eof" THEN NeedR(1)
            ELSE IF s.st = "bad" THEN ErrR
            ELSE IF Len(d) < used THEN NeedR(used - Len(d))
            ELSE IF used > p.len THEN ErrR
            ELSE ParsedR(used, "CodeSectionEntry", <<>>, <<>>, NewParser,
                         [p EXCEPT !.remaining = @ - 1, !.len = @ - used])
        sized(s) == body(s, s.pos + s.val)
    IN  sized(ReadVarU32(d, 0))

\* State::ModuleCode{remaining, len}: the size of one nested module.  Only
\* the size's bytes are consumed; the module itself is left to the
\* sub-parser the payload carries, and is taken off this parser's max_size.
ReadModuleCode(p, d) ==
    LET sized(s) ==
            IF p.remaining = 0 THEN ErrR
            ELSE IF s.st = "eof" THEN NeedR(1)
            ELSE IF s.st = "bad" THEN ErrR
            ELSE IF s.pos > p.len \/ s.val > p.len - s.pos THEN ErrR
            ELSE ParsedR(s.pos, "ModuleCodeSectionEntry", <<>>, <<>>, SubParser(s.val),
                         [p EXCEPT !.remaining = @ - 1,
                                   !.len = @ - s.pos - s.val,
                                   !.max = IF p.limited THEN @ - s.val ELSE @])
    IN  sized(ReadVarU32(d, 0))

\* Parser::parse_reader.
ParseReader(p, d, eof) ==
    LET q == IF p.st \in {"FunctionBody", "ModuleCode"} /\ p.remaining = 0 /\ p.len = 0
             THEN [p EXCEPT !.st = "SectionStart"] ELSE p
    IN  CASE q.st = "ModuleHeader" -> ReadFileHeader(q, d)
          [] q.st = "SectionStart" -> ReadSection(q, d, eof)
          [] q.st = "FunctionBody" -> ReadFunctionBody(q, d)
          [] q.st = "ModuleCode"   -> ReadModuleCode(q, d)

\* Parser::parse: a buffer longer than max_size is cut to it and is then at
\* its end; an error becomes NeedMoreData only when more data could help.
ParserParse(p, buf, eof) ==
    LET cut == p.limited /\ Len(buf) > p.max
        answer(r, e) ==
            IF r.res = "ok"
            THEN [r EXCEPT !.next.max = IF r.next.limited THEN @ - r.pos ELSE @]
            ELSE IF e \/ r.res = "err" THEN ErrR
            ELSE r
    IN  answer(ParseReader(p, IF cut THEN Take(buf, p.max) ELSE buf, cut \/ eof),
               cut \/ eof)


(***************************************************************************)
(* Tar archives.  The tar crate is a library: the model keeps what the     *)
(* loader reads of it.  An archive is a sequence of entry codes, one byte  *)
(* per entry; TarEntryTable gives the header (entry type, path) and the    *)
(* content each code stands for.  An entry occupies one 512-byte header    *)
(* block and its content padded to whole blocks, which fixes               *)
(* raw_file_position.  A path is the sequence of its components as         *)
(* Path::components yields them; ".." is Component::ParentDir, "." is      *)
(* CurDir (which components yields at the head of a path only), "/" is     *)
(* RootDir, "C:" is a Prefix and "<FF>" is a Normal component whose bytes  *)
(* are not UTF-8.                                                          *)
(***************************************************************************)
TarEntryTable ==
    <<[typ |-> "Regular",   path |-> <<"a">>,       content |-> <<11, 12, 13>>],
      [typ |-> "Regular",   path |-> <<"a", "b">>,  content |-> <<21, 22>>],
      [typ |-> "Directory", path |-> <<"a">>,       content |-> <<>>],
      [typ |-> "Regular",   path |-> <<"b">>,       content |-> <<>>],
      [typ |-> "Directory", path |-> <<"b", "a">>,  content |-> <<>>],
      [typ |-> "Symlink",   path |-> <<"c">>,       content |-> <<>>],
      [typ |-> "Regular",   path |-> <<"..", "a">>, content |-> <<31>>],
      \* config.yaml documents, in the encoding ParseYaml reads
      [typ |-> "Regular",   path |-> <<"config.yaml">>, content |-> <<1, 3>>],
      [typ |-> "Regular",   path |-> <<"config.yaml">>, content |-> <<1, 4, 2, 2>>],
      [typ |-> "Regular",   path |-> <<"config.yaml">>, content |-> <<1, 5>>],
      [typ |-> "Regular",   path |-> <<"config.yaml">>, content |-> <<1, 1, 2, 1, 3, 2>>],
      [typ |-> "Regular",   path |-> <<"config.yaml">>, content |-> <<1, 2>>],
      [typ |-> "Regular",   path |-> <<"config.yaml">>, content |-> <<9>>],
      \* paths with a component that is not Normal, or not UTF-8
      [typ |-> "Regular",   path |-> <<".", "a">>,    content |-> <<41>>],
      [typ |-> "Directory", path |-> <<"a", "..">>,   content |-> <<>>],
      [typ |-> "Regular",   path |-> <<"a", "..">>,   content |-> <<42>>],
      [typ |-> "Regular",   path |-> <<"/", "a">>,    content |-> <<43>>],
      [typ |-> "Directory", path |-> <<"<FF>">>,      content |-> <<>>],
      [typ |-> "Regular",   path |-> <<"a", "<FF>">>, content |-> <<44>>],
      [typ |-> "Directory", path |-> <<"C:", "a">>,   content |-> <<>>],
      [typ |-> "Regular",   path |-> <<"/">>,         content |-> <<45>>]>>

TarBlocks(size) == (size + 511) \div 512

RECURSIVE TarHeaderPos(_, _)
TarHeaderPos(ar, i) ==
    IF i = 1 THEN 0
    ELSE TarHeaderPos(ar, i - 1)
         + 512 * (1 + TarBlocks(Len(TarEntryTable[ar[i - 1]].content)))

\* tar::Archive::entries: the headers in archive order, each with its
\* raw_file_position, the archive offset at which its content starts.
TarEntries(ar) ==
    [i \in 1..Len(ar) |->
        [typ     |-> TarEntryTable[ar[i]].typ,
         path    |-> TarEntryTable[ar[i]].path,
         size    |-> Len(TarEntryTable[ar[i]].content),
         content |-> TarEntryTable[ar[i]].content,
         raw_file_position |-> TarHeaderPos(ar, i) + 512]]

(***************************************************************************)
(* std::path::Path, on sequences of components.                            *)
(***************************************************************************)
IsNormal(c) == c \notin {"..", ".", "/", "C:"}

\* OsStr::to_str is Some.
IsUtf8(name) == name # "<FF>"

\* Path::parent: None for the empty path and for a root.
HasParent(path) == path # <<>> /\ path # <<"/">>
Parent(path) == SubSeq(path, 1, Len(path) - 1)

\* Path::file_name: the last component when it is a Normal one.
HasFileName(path) == path # <<>> /\ IsNormal(path[Len(path)])
FileName(path) == path[Len(path)]

(***************************************************************************)
(* virtfs::TarDirEntry: Directory(HashMap<String, TarDirEntry>) or         *)
(* File(TarFileContents{content, offset}), content being the archive the   *)
(* file was populated from (an Rc<[u8]> shared by its files).              *)
(***************************************************************************)
EmptyMap == <<>>
Directory(map) ==
    [kind |-> "Directory", map |-> map, content |-> <<>>, offset |-> 0]
\* TarFileContents::new(content, offset) in a File.
File(content, offset) ==
    [kind |-> "File", map |-> EmptyMap, content |-> content, offset |-> offset]
empty_directory == Directory(EmptyMap)

\* MapInsert that keeps the entry a name already has (or_insert for insert).
MapInsertKeep(map, name, e) ==
    [n \in DOMAIN map \cup {name} |-> IF n \in DOMAIN map THEN map[n] ELSE e]

\* HashMap::insert: the entry under `name` is set, or replaced.
MapInsert(map, name, e) ==
    [n \in DOMAIN map \cup {name} |-> IF n = name THEN e ELSE map[n]]

\* TarDirEntry::populate_directory: walk `path` from `e`, creating the
\* directories that are missing.  The answer is the tree as the walk left it
\* and how the walk ended: "ok" (the entry at `path` is the &mut returned),
\* "err" (InvalidInput at a component that is not Normal) or "panic" (the
\* unreachable!() arm: the walk stands on a File with a component left).
RECURSIVE populate_directory(_, _)
populate_directory(e, path) ==
    IF path = <<>> THEN [st |-> "ok", e |-> e]
    ELSE LET name == Head(path) IN
         IF ~IsNormal(name) \/ ~IsUtf8(name) THEN [st |-> "err", e |-> e]
         ELSE IF e.kind # "Directory" THEN [st |-> "panic", e |-> e]
         ELSE LET m1 == IF name \in DOMAIN e.map THEN e.map
                        ELSE MapInsert(e.map, name, empty_directory)
                  r  == populate_directory(m1[name], Tail(path))
              IN  [st |-> r.st, e |-> [e EXCEPT !.map = MapInsert(m1, name, r.e)]]

\* The entry `path` names below `e`, following Directory maps only.
RECURSIVE EntryAt(_, _)
EntryAt(e, path) ==
    IF path = <<>> THEN e ELSE EntryAt(e.map[Head(path)], Tail(path))

\* `e` with the entry at `path` (which exists) replaced by `new`.
RECURSIVE ReplaceAt(_, _, _)
ReplaceAt(e, path, new) ==
    IF path = <<>> THEN new
    ELSE [e EXCEPT !.map = MapInsert(e.map, Head(path),
                                     ReplaceAt(e.map[Head(path)], Tail(path), new))]

\* TarDirEntry::populate(content, entry) for one archive entry.
populate(e, content, entry) ==
    CASE entry.typ = "Regular" ->
            LET path == entry.path
                walk == IF HasParent(path) THEN populate_directory(e, Parent(path))
                        ELSE [st |-> "ok", e |-> e]
                ppath  == IF HasParent(path) THEN Parent(path) ELSE <<>>
                parent == EntryAt(walk.e, ppath)
            IN  IF walk.st # "ok" THEN walk
                ELSE IF parent.kind # "Directory" THEN [st |-> "panic", e |-> walk.e]
                ELSE IF ~HasFileName(path) THEN [st |-> "err", e |-> walk.e]
                ELSE IF ~IsUtf8(FileName(path)) THEN [st |-> "err", e |-> walk.e]
                ELSE [st |-> "ok",
                      e  |-> ReplaceAt(walk.e, ppath,
                                 Directory(MapInsert(parent.map, FileName(path),
                                                     File(content, entry.raw_file_position))))]
      [] entry.typ = "Directory" -> populate_directory(e, entry.path)
      [] OTHER -> [st |-> "ok", e |-> e]

\* TarDirEntry::lookup: NoEntry is None.
NoEntry == [kind |-> "None", map |-> EmptyMap, content |-> <<>>, offset |-> 0]

RECURSIVE LookupWalk(_, _)
LookupWalk(e, path) ==
    IF path = <<>> THEN e
    ELSE IF ~IsNormal(Head(path)) \/ ~IsUtf8(Head(path)) THEN NoEntry
    ELSE IF e.kind # "Directory" THEN NoEntry
    ELSE IF Head(path) \notin DOMAIN e.map THEN NoEntry
    ELSE LookupWalk(e.map[Head(path)], Tail(path))

lookup(e, path) ==
    LET dir == IF HasParent(path) THEN LookupWalk(e, Parent(path)) ELSE e IN
    IF dir.kind = "None" THEN NoEntry
    ELSE IF ~HasFileName(path) THEN NoEntry
    ELSE IF ~IsUtf8(FileName(path)) THEN NoEntry
    ELSE IF dir.kind # "Directory" THEN NoEntry
    ELSE IF FileName(path) \notin DOMAIN dir.map THEN NoEntry
    ELSE dir.map[FileName(path)]

(***************************************************************************)
(* virtfs::TarFileContents: the reads of a File, each a fresh walk of the  *)
(* archive to the entry whose raw_file_position is the file's offset.      *)
(***************************************************************************)
\* TarFileContents::get_entry: the index of the first entry at `offset`,
\* 0 for Errno::Noent.
get_entry(ar, offset) ==
    LET es  == TarEntries(ar)
        hit == {i \in 1..Len(es) : es[i].raw_file_position = offset}
    IN  IF hit = {} THEN 0 ELSE CHOOSE i \in hit : \A j \in hit : i <= j

\* TarFileContents::try_size and size (0 when the entry is not found).
size(f) ==
    LET i == get_entry(f.content, f.offset) IN
    IF i = 0 THEN 0 ELSE TarEntries(f.content)[i].size

\* pread without the skip of `offset` bytes: it reads from the entry's start.
preadFromStart(f, buflen, offset) ==
    LET i == get_entry(f.content, f.offset) IN
    IF i = 0 THEN [err |-> "Noent", n |-> 0, data |-> <<>>]
    ELSE LET entry == TarEntries(f.content)[i]
             read_count == Min(buflen, Max(entry.size - offset, 0))
         IN  [err |-> "", n |-> read_count,
              data |-> SubSeq(entry.content, 1, read_count)]

\* TarFileContents::pread(buf, offset) with buf.len() = buflen: the count
\* returned and the bytes left in buf[..count].
pread(f, buflen, offset) ==
    LET i == get_entry(f.content, f.offset) IN
    IF i = 0 THEN [err |-> "Noent", n |-> 0, data |-> <<>>]
    ELSE LET entry == TarEntries(f.content)[i]
             data_remaining == Max(entry.size - offset, 0)
             read_count == Min(buflen, data_remaining)
             \* io::copy(entry.take(offset), sink) moves the entry's cursor
             skipped == Min(offset, entry.size)
         IN  [err |-> "", n |-> read_count,
              data |-> SubSeq(entry.content, skipped + 1, skipped + read_count)]

\* TarFileContents::preadv(iovs, offset), iovs being the lengths of the
\* buffers: one pread per buffer, each starting where the last one stopped.
RECURSIVE preadvFrom(_, _, _, _)
preadvFrom(f, iovs, offset, acc) ==
    IF iovs = <<>> THEN acc
    ELSE LET r == pread(f, Head(iovs), offset + acc.n) IN
         IF r.err # "" THEN [err |-> r.err, n |-> 0, data |-> <<>>]
         ELSE preadvFrom(f, Tail(iovs), offset,
                         [err |-> "", n |-> acc.n + r.n, data |-> acc.data \o r.data])

preadv(f, iovs, offset) ==
    preadvFrom(f, iovs, offset, [err |-> "", n |-> 0, data |-> <<>>])

\* The three operations that take &mut self: the answer and the
\* TarFileContents they leave.
resize(f, new_size) == [err |-> "Inval", n |-> 0, f |-> f]

pwritev(f, iovs, offset) == [err |-> "Inval", n |-> 0, f |-> f]

\* pwrite that accepts the write and moves the file to `offset`.
pwriteAccepted(f, buflen, offset) ==
    [err |-> "", n |-> buflen, f |-> [f EXCEPT !.offset = offset]]

pwrite(f, buflen, offset) == [err |-> "Inval", n |-> 0, f |-> f]

(***************************************************************************)
(* bundle::parse.  `ps` holds the locals of one call: the reader's unread  *)
(* bytes, buf, eof, the current parser and the stack of parent parsers.    *)
(* ParseStep is one iteration of the loop; `n` is what input.read          *)
(* returned when the iteration reads.  The slice handed to a callback is   *)
(* left in `ev` for the caller's closure; `custom` and `deflt` record all  *)
(* that was handed to handle_custom and handle_default, and `ranges` where *)
(* in the input each forwarded slice came from (offset, length).           *)
(***************************************************************************)
RESOURCES_SECTION ==
    <<46, 101, 110, 97, 114, 120, 46, 114, 101, 115, 111, 117, 114, 99, 101, 115>>

NoEvent == [k |-> "none", bytes |-> <<>>]

InitParse(section, bytes) ==
    [section |-> section, input |-> bytes, buf |-> <<>>, eof |-> FALSE,
     parser |-> NewParser, stack |-> <<>>, pc |-> "loop",
     custom |-> <<>>, deflt |-> <<>>, pos |-> 0, ranges |-> <<>>, ev |-> NoEvent]

\* The payload arms that forward buf[..consumed] to handle_default.
ForwardDefault(s, c) ==
    [s EXCEPT !.parser = c.next,
              !.deflt  = @ \o Take(s.buf, c.pos),
              !.ranges = Append(@, <<s.pos, c.pos>>),
              !.ev     = [k |-> "default", bytes |-> Take(s.buf, c.pos)],
              !.buf    = Drop(@, c.pos),
              !.pos    = @ + c.pos]

\* DeliverCustom with the name test lost on the way to handle_default: the
\* payload is delivered and the section is forwarded as well.
DeliverCustomForwarded(s, c) ==
    [ForwardDefault(s, c) EXCEPT !.custom = Append(s.custom, c.data),
                                 !.ev = [k |-> "custom", bytes |-> c.data]]

\* The CustomSection arm for name == section: handle_custom(data).
DeliverCustom(s, c) ==
    [s EXCEPT !.parser = c.next,
              !.custom = Append(@, c.data),
              !.ev     = [k |-> "custom", bytes |-> c.data],
              !.buf    = Drop(@, c.pos),
              !.pos    = @ + c.pos]

\* The ModuleCodeSectionEntry arm: push the parser, continue with the
\* sub-parser; buf.drain(..consumed) follows as for every arm.
EnterModule(s, c) ==
    [s EXCEPT !.stack  = Append(@, c.next),
              !.parser = c.sub,
              !.ev     = NoEvent,
              !.buf    = Drop(@, c.pos),
              !.pos    = @ + c.pos]

\* The End arm: back to the parent parser, or out of the loop.
LeaveModule(s, c) ==
    IF s.stack # <<>>
    THEN [s EXCEPT !.parser = s.stack[Len(s.stack)],
                   !.stack  = SubSeq(@, 1, Len(@) - 1),
                   !.ev     = NoEvent,
                   !.buf    = Drop(@, c.pos),
                   !.pos    = @ + c.pos]
    ELSE [s EXCEPT !.parser = c.next, !.ev = NoEvent, !.pc = "ok"]

\* The NeedMoreData arm: extend buf by `hint`, read, truncate to what came.
ReadMore(s, n) ==
    IF s.eof THEN [s EXCEPT !.pc = "panic", !.ev = NoEvent]  \* assert!(!eof)
    ELSE [s EXCEPT !.buf   = @ \o Take(s.input, n),
                   !.input = Drop(@, n),
                   !.eof   = (n = 0),
                   !.ev    = NoEvent]

ParseStep(s, n) ==
    LET arm(c) ==
            CASE c.res = "err"  -> [s EXCEPT !.pc = "err", !.ev = NoEvent]
              [] c.res = "need" -> ReadMore(s, n)
              [] c.res = "ok" /\ c.kind = "CustomSection" ->
                    IF c.name = s.section THEN DeliverCustom(s, c)
                    ELSE ForwardDefault(s, c)
              [] c.res = "ok" /\ c.kind = "ModuleCodeSectionEntry" -> EnterModule(s, c)
              [] c.res = "ok" /\ c.kind = "End" -> LeaveModule(s, c)
              [] OTHER -> ForwardDefault(s, c)
    IN  arm(ParserParse(s.parser, s.buf, s.eof))

\* The room a NeedMoreData answer makes in buf (0 for any other answer).
ReadRoom(s) ==
    LET room(c) == IF c.res = "need" THEN c.hint ELSE 0
    IN  room(ParserParse(s.parser, s.buf, s.eof))

\* What input.read(&mut buf[len..]) may return in state s: a reader gives
\* between 1 byte and the room it is offered while it has bytes left, and 0
\* at its end.  The model takes a full read and a short one of half of it.
ReadSizes(s) ==
    LET sizes(full) == IF full = 0 THEN {0} ELSE {full, (full + 1) \div 2}
    IN  sizes(Min(ReadRoom(s), Len(s.input)))

\* The closure populate_virtfs gives as handle_custom: unpack the tar in
\* `data` into the tree, entry by entry, stopping at the first failure.
RECURSIVE PopulateFrom(_, _, _)
PopulateFrom(e, data, i) ==
    IF i > Len(data) THEN [st |-> "ok", e |-> e]
    ELSE LET r == populate(e, data, TarEntries(data)[i]) IN
         IF r.st # "ok" THEN r ELSE PopulateFrom(r.e, data, i + 1)

PopulateArchive(e, data) == PopulateFrom(e, data, 1)


(***************************************************************************)
(* Bounds and inputs of the bundle codec's model.                          *)
(***************************************************************************)
MaxSections == 2     \* sections of an input module (nested modules: one)
LongTarLen  == 120   \* an archive long enough for a two-byte ULEB128 size
CopyBufLen  == 4096  \* the buffer of append_archive's copy loop

OtherName == <<120>>

SecResources == CustomSec(RESOURCES_SECTION, <<1>>)
SecOther     == CustomSec(OtherName, <<2, 1>>)
SecType      == PlainSec(1, <<1, 96, 0, 0>>)
SecCode      == CodeSec(<<(<<0, 11>>)>>)

InputSections ==
    {SecResources, SecOther, SecType, SecCode,
     ModuleCodeSec(<<(<<SecResources>>)>>),
     ModuleCodeSec(<<(<<SecType>>), (<<>>)>>)}

InputModules == UNION {[1..n -> InputSections] : n \in 0..MaxSections}

SectionNames == {RESOURCES_SECTION, OtherName}

\* The archives build appends: a short one, and one long enough for the
\* section's size to take two ULEB128 bytes.
TarPayloads == {<<2, 1>>, [i \in 1..LongTarLen |-> 6]}

(***************************************************************************)
(* What the structure of a module says parse should do with its bytes.     *)
(***************************************************************************)
Flags(n, b) == [i \in 1..n |-> b]

\* One flag per byte of the serialisation: TRUE for the bytes of a custom
\* section named `sect` (framing and payload), at any nesting depth.
RECURSIVE OwnedMod(_, _), OwnedSec(_, _)
OwnedSec(s, sect) ==
    IF s.k = "custom" THEN Flags(Len(EncSec(s)), s.name = sect)
    ELSE IF s.k = "modcode" THEN
         LET inner == Concat([i \in 1..Len(s.items) |->
                          Flags(Len(Leb(Len(EncMod(s.items[i])))), FALSE)
                          \o OwnedMod(s.items[i], sect)])
         IN  Flags(Len(EncSec(s)) - Len(inner), FALSE) \o inner
    ELSE Flags(Len(EncSec(s)), FALSE)
OwnedMod(m, sect) ==
    Flags(Len(WasmHeader), FALSE) \o Concat([i \in 1..Len(m) |-> OwnedSec(m[i], sect)])

\* The payloads of the custom sections named `sect`, in input order.
RECURSIVE CustomsOf(_, _)
CustomsOf(m, sect) ==
    Concat([i \in 1..Len(m) |->
        IF m[i].k = "custom" /\ m[i].name = sect THEN <<m[i].data>>
        ELSE IF m[i].k = "modcode"
             THEN Concat([j \in 1..Len(m[i].items) |-> CustomsOf(m[i].items[j], sect)])
        ELSE <<>>])

\* The bytes of `bytes` whose flag is FALSE, in order.
Unowned(bytes, flags) ==
    LET idx == SelectSeq([i \in 1..Len(bytes) |-> i], LAMBDA i : ~flags[i])
    IN  [j \in 1..Len(idx) |-> bytes[idx[j]]]

IsPlain(m, sect) == CustomsOf(m, sect) = <<>>

HasNested(m) == \E i \in 1..Len(m) : m[i].k = "modcode" /\ m[i].items # <<>>

(***************************************************************************)
(* Builder's paths and create_archive.  The files of the host are a fixed  *)
(* small tree; a path is the sequence of its components.  bundle.rs never  *)
(* looks inside the archive, so an entry tar::Builder appends is written   *)
(* here as three numbers: its type flag, the number of components of the   *)
(* name it is stored under, and the index of the host path it came from.   *)
(*   bpc = "tempfile"  build is at tempfile::tempfile()                    *)
(*         "create"    create_archive is at paths[ca.i] (ca.i is 0 until   *)
(*                     create_archive is entered)                          *)
(*   ca.err is the kind of the error build returned from these steps.      *)
(***************************************************************************)
MaxPaths == 2      \* paths added to a Builder

HostPathSeq ==
    << <<"a">>, <<"a", "b">>, <<"b">>, <<"a", "s">>, <<"a", "m">>, <<"ab">> >>

\* std::fs::metadata: a directory, a regular file, something else (a socket),
\* or an error when nothing is there.
HostKind(p) ==
    CASE p = <<"a">> -> "dir"
      [] p = <<"a", "b">> -> "file"
      [] p = <<"b">> -> "file"
      [] p = <<"a", "s">> -> "other"
      [] p = <<"ab">> -> "file"
      [] OTHER -> "missing"

HostPaths == {HostPathSeq[i] : i \in 1..Len(HostPathSeq)}
Prefixes  == {<<>>, <<"a">>}

NoCreate == [paths |-> <<>>, prefix |-> <<>>, i |-> 0, err |-> ""]

\* The loop over path.ancestors(), from the path up to its first component:
\* the first ancestor whose metadata fails or that is neither a directory nor
\* a file ends create_archive.
RECURSIVE CheckAncestors(_, _)
CheckAncestors(p, k) ==
    IF k = 0 THEN "ok"
    ELSE IF HostKind(SubSeq(p, 1, k)) = "missing" THEN "NotFound"
    ELSE IF HostKind(SubSeq(p, 1, k)) = "other" THEN "InvalidInput"
    ELSE CheckAncestors(p, k - 1)

\* Path::strip_prefix, by components.
StartsWith(p, prefix) ==
    Len(prefix) <= Len(p) /\ SubSeq(p, 1, Len(prefix)) = prefix

StripPrefix(p, prefix) == SubSeq(p, Len(prefix) + 1, Len(p))

IndexOf(p) == CHOOSE i \in 1..Len(HostPathSeq) : HostPathSeq[i] = p

\* What append_path_with_name writes for path p stored under `name`.
TarEntryBytes(p, name) ==
    <<(IF HostKind(p) = "dir" THEN 5 ELSE 0), Len(name), IndexOf(p)>>

\* One iteration of create_archive's loop, `io` telling whether the reads
\* and writes of append_path_with_name succeed: the error it ends with, or
\* "ok" and the bytes appended.
AddPathUnchecked(p, prefix, io) ==
    IF CheckAncestors(p, Len(p)) # "ok"
    THEN [st |-> CheckAncestors(p, Len(p)), bytes |-> <<>>]
    ELSE IF ~io THEN [st |-> "Other", bytes |-> <<>>]
    ELSE [st |-> "ok", bytes |-> TarEntryBytes(p, p)]

AddPath(p, prefix, io) ==
    IF CheckAncestors(p, Len(p)) # "ok"
    THEN [st |-> CheckAncestors(p, Len(p)), bytes |-> <<>>]
    ELSE IF ~StartsWith(p, prefix) THEN [st |-> "InvalidInput", bytes |-> <<>>]
    ELSE IF StripPrefix(p, prefix) = <<>> \/ ~io THEN [st |-> "Other", bytes |-> <<>>]
    ELSE [st |-> "ok", bytes |-> TarEntryBytes(p, StripPrefix(p, prefix))]

\* Builder::build called with paths and a prefix, nothing done yet.
CreateInit ==
    /\ bmod = <<SecType>>
    /\ bsection \in SectionNames
    /\ barchive = <<>> /\ bfirst = <<>>
    /\ ca \in {[paths |-> ps0, prefix |-> pre, i |-> 0, err |-> ""] :
                 ps0 \in UNION {[1..n -> HostPaths] : n \in 0..MaxPaths},
                 pre \in Prefixes}
    /\ bpc = "tempfile"
    /\ ps = InitParse(<<>>, <<>>)
    /\ output = <<>> /\ apos = 0

\* tempfile::tempfile()?
Tempfile ==
    /\ bpc = "tempfile"
    /\ \E ok \in BOOLEAN :
         /\ bpc' = IF ok THEN "create" ELSE "build_err"
         /\ ca' = IF ok THEN [ca EXCEPT !.i = 1] ELSE [ca EXCEPT !.err = "Other"]
    /\ UNCHANGED <<bmod, bsection, barchive, bfirst, ps, output, apos>>

\* One iteration of the loop of create_archive.
CreateEntry ==
    /\ bpc = "create" /\ ca.i <= Len(ca.paths)
    /\ \E io \in BOOLEAN : \E r \in {AddPath(ca.paths[ca.i], ca.prefix, io)} :
         /\ barchive' = barchive \o r.bytes
         /\ bpc' = IF r.st = "ok" THEN "create" ELSE "build_err"
         /\ ca' = IF r.st = "ok" THEN [ca EXCEPT !.i = @ + 1]
                  ELSE [ca EXCEPT !.err = r.st]
    /\ UNCHANGED <<bmod, bsection, bfirst, ps, output, apos>>

\* builder.finish()?, the section name, and build is at its call of parse.
CreateFinish ==
    /\ bpc = "create" /\ ca.i > Len(ca.paths)
    /\ \E ok \in BOOLEAN :
         /\ bpc' = IF ok THEN "build_parse" ELSE "build_err"
         /\ ca' = IF ok THEN ca ELSE [ca EXCEPT !.err = "Other"]
         /\ ps' = IF ok THEN InitParse(bsection, EncMod(bmod)) ELSE ps
    /\ UNCHANGED <<bmod, bsection, barchive, bfirst, output, apos>>

(***************************************************************************)
(* Builder::build and the two callers of parse.                            *)
(*   bpc = "build_parse"   build is inside parse(input, section, ..)       *)
(*         "append"        build is at append_archive, nothing written yet *)
(*         "copy"          append_archive's copy loop                      *)
(*         "built"         build returned Ok(())                           *)
(*         "build_err"     build returned Err                              *)
(*         "reparse"       a consumer parses what build wrote              *)
(*         "done" / "reparse_err"   that parse returned Ok / Err           *)
(*         "virtfs_parse"  populate_virtfs is inside parse(bytes, ..)      *)
(*         "virtfs_done" / "virtfs_err" / "virtfs_panic"  its outcome      *)
(***************************************************************************)
BundleIdle ==
    /\ bmod = <<>> /\ bsection = <<>> /\ barchive = <<>> /\ bpc = "idle"
    /\ bfirst = <<>> /\ ca = NoCreate
    /\ ps = InitParse(<<>>, <<>>) /\ output = <<>> /\ apos = 0

\* build(input, output) up to the call of parse: the archive is written,
\* the section name resolved, nothing is in output.
BuildInit ==
    /\ bmod \in InputModules
    /\ bsection \in SectionNames
    /\ barchive \in TarPayloads
    /\ bfirst = <<>> /\ ca = NoCreate
    /\ bpc = "build_parse"
    /\ ps = InitParse(bsection, EncMod(bmod))
    /\ output = <<>> /\ apos = 0

\* build at its call of parse, on an input that is the first `cut` bytes of
\* a module's serialisation: a complete module, or one that ends early.
MaxCutSections == 1   \* sections of the modules that are cut short

CutInit ==
    /\ bmod \in UNION {[1..n -> InputSections] : n \in 0..MaxCutSections}
    /\ bsection = RESOURCES_SECTION
    /\ barchive = <<>>
    /\ bfirst = <<>> /\ ca = NoCreate
    /\ bpc = "build_parse"
    /\ \E cut \in 0..Len(EncMod(bmod)) :
          ps = InitParse(bsection, Take(EncMod(bmod), cut))
    /\ output = <<>> /\ apos = 0

\* populate_virtfs(root, bytes) at its call of parse.
VirtfsInit ==
    /\ bmod \in InputModules
    /\ bsection = RESOURCES_SECTION
    /\ barchive = <<>>
    /\ bfirst = <<>> /\ ca = NoCreate
    /\ bpc = "virtfs_parse"
    /\ ps = InitParse(RESOURCES_SECTION, EncMod(bmod))
    /\ output = <<>> /\ apos = 0

\* One iteration of parse inside build: handle_custom is |_| Ok(()),
\* handle_default is |bytes| output.write_all(bytes), here succeeding.
BuildParseStep ==
    /\ bpc = "build_parse" /\ ps.pc = "loop"
    /\ \E n \in ReadSizes(ps) : \E s1 \in {ParseStep(ps, n)} :
         /\ ps' = s1
         /\ output' = IF s1.ev.k = "default" THEN output \o s1.ev.bytes ELSE output
         /\ bpc' = CASE s1.pc = "ok"  -> "append"
                     [] s1.pc = "loop" -> "build_parse"
                     [] OTHER -> "build_err"
    /\ UNCHANGED <<bmod, bsection, barchive, bfirst, apos>>

\* The same iteration when output.write_all fails: part of the slice may be
\* written, the error leaves parse and build through `?`.
BuildParseWriteFails ==
    /\ bpc = "build_parse" /\ ps.pc = "loop"
    /\ \E n \in ReadSizes(ps) : \E s1 \in {ParseStep(ps, n)} :
         /\ s1.ev.k = "default"
         /\ \E k \in {0, Len(s1.ev.bytes) - 1} :
              output' = output \o Take(s1.ev.bytes, k)
         /\ ps' = [s1 EXCEPT !.pc = "ioerr"]
         /\ bpc' = "build_err"
    /\ UNCHANGED <<bmod, bsection, barchive, bfirst, apos>>

\* input.read(..)? failing inside parse.
BuildParseReadFails ==
    /\ bpc = "build_parse" /\ ps.pc = "loop"
    /\ ParserParse(ps.parser, ps.buf, ps.eof).res = "need"
    /\ ps' = [ps EXCEPT !.pc = "ioerr", !.ev = NoEvent]
    /\ bpc' = "build_err"
    /\ UNCHANGED <<bmod, bsection, barchive, bfirst, output, apos>>

\* append_archive up to the copy loop: the name header, the archive's size,
\* then the id byte 0, the ULEB128 content size and the header are written.
SectionHeader(section) == Leb(Len(section)) \o section

SectionFramingNoLengthField(section, tarlen) ==
    <<0>> \o Leb(tarlen + Len(section)) \o SectionHeader(section)

SectionFraming(section, tarlen) ==
    <<0>> \o Leb(tarlen + Len(SectionHeader(section))) \o SectionHeader(section)

AppendHeader ==
    /\ bpc = "append"
    /\ output' = output \o SectionFraming(bsection, Len(barchive))
    /\ apos' = 0
    /\ bpc' = "copy"
    /\ UNCHANGED <<bmod, bsection, barchive, bfirst, ps>>

\* A seek or one of the writes of the framing fails: a prefix is written.
AppendHeaderFails ==
    /\ bpc = "append"
    /\ \E k \in 0..(Len(SectionFraming(bsection, Len(barchive))) - 1) :
         output' = output \o Take(SectionFraming(bsection, Len(barchive)), k)
    /\ bpc' = "build_err"
    /\ UNCHANGED <<bmod, bsection, barchive, bfirst, ps, apos>>

\* What archive.read(&mut buf[..]) may return at position apos.
CopySizes ==
    LET full == Min(CopyBufLen, Len(barchive) - apos) IN
    IF full = 0 THEN {0} ELSE {full, (full + 1) \div 2}

\* One iteration of the copy loop: read a chunk, write it; 0 ends the loop
\* and append_archive, and build returns Ok(()).
CopyChunk ==
    /\ bpc = "copy"
    /\ \E n \in CopySizes :
         /\ output' = output \o SubSeq(barchive, apos + 1, apos + n)
         /\ apos' = apos + n
         /\ bpc' = IF n = 0 THEN "built" ELSE "copy"
    /\ UNCHANGED <<bmod, bsection, barchive, bfirst, ps>>

\* The read fails, or the write of the chunk fails part-way.
CopyChunkFails ==
    /\ bpc = "copy"
    /\ \E n \in CopySizes :
         \E k \in {0, Max(n - 1, 0)} :
            /\ output' = output \o SubSeq(barchive, apos + 1, apos + k)
            /\ apos' = apos + n
    /\ bpc' = "build_err"
    /\ UNCHANGED <<bmod, bsection, barchive, bfirst, ps>>

\* A consumer opens what build wrote: parse(output, section, on_custom,
\* on_default) with callbacks that only collect.
\* build is applied again, with the same paths and section, to what it
\* wrote: the same archive, the earlier output as input, a fresh output.
StartRebuild ==
    /\ bpc = "built" /\ bfirst = <<>>
    /\ bfirst' = output
    /\ ps' = InitParse(bsection, output)
    /\ output' = <<>>
    /\ apos' = 0
    /\ bpc' = "build_parse"
    /\ UNCHANGED <<bmod, bsection, barchive>>

StartReparse ==
    /\ bpc = "built"
    /\ ps' = InitParse(bsection, output)
    /\ bpc' = "reparse"
    /\ UNCHANGED <<bmod, bsection, barchive, bfirst, output, apos>>

ReparseStep ==
    /\ bpc = "reparse" /\ ps.pc = "loop"
    /\ \E n \in ReadSizes(ps) : \E s1 \in {ParseStep(ps, n)} :
         /\ ps' = s1
         /\ bpc' = CASE s1.pc = "ok"  -> "done"
                     [] s1.pc = "loop" -> "reparse"
                     [] OTHER -> "reparse_err"
    /\ UNCHANGED <<bmod, bsection, barchive, bfirst, output, apos>>



\* What a byte slice's read returns: all the room offered, or what is left.
SliceRead(s) == Min(ReadRoom(s), Len(s.input))

\* One iteration of parse inside populate_virtfs: handle_custom unpacks the
\* payload into the tree (and may fail, or panic), handle_default is
\* |_| Ok(()).
VirtfsParseStep ==
    /\ bpc = "virtfs_parse" /\ ps.pc = "loop"
    /\ \E s1 \in {ParseStep(ps, SliceRead(ps))} :
       \E r \in {IF s1.ev.k = "custom" THEN PopulateArchive(root, s1.ev.bytes)
                 ELSE [st |-> "ok", e |-> root]} :
           /\ root' = r.e
           /\ ps'  = IF r.st = "ok" THEN s1 ELSE [s1 EXCEPT !.pc = r.st]
           /\ bpc' = CASE r.st = "panic" -> "virtfs_panic"
                       [] r.st = "err" -> "virtfs_err"
                       [] s1.pc = "ok" -> "virtfs_done"
                       [] s1.pc = "loop" -> "virtfs_parse"
                       [] OTHER -> "virtfs_err"
    /\ UNCHANGED <<bmod, bsection, barchive, bfirst, output, apos>>


(***************************************************************************)
(* workload::run.  The deployment configuration is the bundled file        *)
(* config.yaml.  The model writes a document as a sequence of fields, two  *)
(* bytes each: the stream (1 stdin, 2 stdout, 3 stderr) and its handle     *)
(* (1 inherit, 2 a file of the host, 3.. a bundled path); ParseYaml is     *)
(* serde_yaml::from_slice on that encoding.  A handle is None when the     *)
(* document does not set the stream.                                       *)
(*   rpc = "populate"  inside populate_virtfs                              *)
(*         "config"    at the read of config.yaml                          *)
(*         "stdin", "stdout", "stderr"   at the match on that handle       *)
(*         "ctx"       at preopened_virt, the WasiCtx and the module       *)
(*         "export"    at linker.get_default                               *)
(*         "call"      at function.call                                    *)
(*         "returned" / "failed" / "panic"   run is over                   *)
(***************************************************************************)
MaxRunEntries == 2   \* entries of the archive bundled in a module run is given

NoHandle == [k |-> "None", path |-> <<>>]
Inherit  == [k |-> "Inherit", path |-> <<>>]
HostFile == [k |-> "File", path |-> <<"host">>]
BundleHandle(path) == [k |-> "Bundle", path |-> path]

NoConfig == [some |-> FALSE, stdio |-> <<NoHandle, NoHandle, NoHandle>>]
BadYaml  == [ok |-> FALSE, stdio |-> <<NoHandle, NoHandle, NoHandle>>]

YamlValue(v) ==
    CASE v = 1 -> Inherit
      [] v = 2 -> HostFile
      [] v = 3 -> BundleHandle(<<"a">>)
      [] v = 4 -> BundleHandle(<<"a", "b">>)
      [] v = 5 -> BundleHandle(<<"c">>)
      [] OTHER -> [k |-> "Bad", path |-> <<>>]

\* The fields of a document, one after the other; an unknown or repeated
\* stream, an unknown handle or a cut field is an error.
RECURSIVE YamlFields(_, _)
YamlFields(bytes, cfg) ==
    IF bytes = <<>> THEN cfg
    ELSE IF Len(bytes) < 2 THEN BadYaml
    ELSE IF bytes[1] \notin 1..3 THEN BadYaml
    ELSE IF YamlValue(bytes[2]).k = "Bad" THEN BadYaml
    ELSE IF cfg.stdio[bytes[1]].k # "None" THEN BadYaml
    ELSE YamlFields(Drop(bytes, 2),
                    [cfg EXCEPT !.stdio[bytes[1]] = YamlValue(bytes[2])])

\* serde_yaml::from_slice::<Config>: an empty document is an error.
ParseYaml(bytes) ==
    IF bytes = <<>> THEN BadYaml
    ELSE YamlFields(bytes, [ok |-> TRUE, stdio |-> <<NoHandle, NoHandle, NoHandle>>])

\* The loop that reads config.yaml: buf has buflen bytes, len of them read;
\* each pread fills buf[len..], a pread of 0 ends the loop, and buf grows by
\* len * 2 after each read.  The answer is buf[..len].
RECURSIVE ReadLoop(_, _, _, _)
ReadLoop(f, buflen, len, acc) ==
    LET after(r) ==
            IF r.err # "" THEN [err |-> TRUE, bytes |-> <<>>]
            ELSE IF r.n = 0 THEN [err |-> FALSE, bytes |-> acc]
            ELSE ReadLoop(f, buflen + (len + r.n) * 2, len + r.n, acc \o r.data)
    IN  after(pread(f, buflen - len, len))

ReadConfig(f) == ReadLoop(f, size(f), 0, <<>>)

\* run's read of the deployment configuration: None without a File
\* config.yaml in the root, InstantiationFailed when the read or the parse
\* fails.
LoadConfig(e) ==
    IF "config.yaml" \notin DOMAIN e.map \/ e.map["config.yaml"].kind # "File"
    THEN [err |-> "", cfg |-> NoConfig]
    ELSE LET parsed(r) ==
                 IF r.err \/ ~ParseYaml(r.bytes).ok
                 THEN [err |-> "InstantiationFailed", cfg |-> NoConfig]
                 ELSE [err |-> "",
                       cfg |-> [some |-> TRUE, stdio |-> ParseYaml(r.bytes).stdio]]
         IN  parsed(ReadConfig(e.map["config.yaml"]))

\* BindStdin with the entry's kind not looked at: a missing entry leaves
\* stdin unset and a directory is bound like a file.
BindStdinUnchecked(e, h, opened) ==
    CASE h.k = "Inherit" -> [err |-> "", bind |-> "inherit"]
      [] h.k = "File" -> IF opened THEN [err |-> "", bind |-> "osfile"]
                         ELSE [err |-> "IoError", bind |-> "unset"]
      [] h.k = "Bundle" -> IF lookup(e, h.path).kind = "None"
                           THEN [err |-> "", bind |-> "unset"]
                           ELSE [err |-> "", bind |-> "virt"]
      [] OTHER -> [err |-> "", bind |-> "unset"]

\* The match on deploy_config.stdio.stdin; `opened` is whether the host
\* opens the file a File handle names.
BindStdin(e, h, opened) ==
    CASE h.k = "Inherit" -> [err |-> "", bind |-> "inherit"]
      [] h.k = "File" -> IF opened THEN [err |-> "", bind |-> "osfile"]
                         ELSE [err |-> "IoError", bind |-> "unset"]
      [] h.k = "Bundle" ->
            IF lookup(e, h.path).kind = "None"
            THEN [err |-> "ConfigurationError", bind |-> "unset"]
            ELSE IF lookup(e, h.path).kind = "Directory"
            THEN [err |-> "ConfigurationError", bind |-> "unset"]
            ELSE [err |-> "", bind |-> "virt"]
      [] OTHER -> [err |-> "", bind |-> "unset"]

\* The matches on stdout and stderr: a File is created and truncated.
BindOutput(h, opened) ==
    CASE h.k = "Inherit" -> [err |-> "", bind |-> "inherit"]
      [] h.k = "File" -> IF opened THEN [err |-> "", bind |-> "osfile"]
                         ELSE [err |-> "IoError", bind |-> "unset"]
      [] OTHER -> [err |-> "", bind |-> "unset"]

RunCodes ==
    {1, 2} \cup {c \in 1..Len(TarEntryTable) : TarEntryTable[c].path = <<"config.yaml">>}
RunArchives == UNION {[1..n -> RunCodes] : n \in 0..MaxRunEntries}
RunModules ==
    {<<SecType>>} \cup {<<SecType, CustomSec(RESOURCES_SECTION, ar)>> : ar \in RunArchives}

RunIdle ==
    /\ rpc = "idle" /\ rcfg = NoConfig /\ rerr = ""
    /\ rstdio = <<"unset", "unset", "unset">> /\ inst = FALSE /\ guest = FALSE
    /\ exit = "none"

\* run(bytes, args, envs) at its call of populate_virtfs.
RunInit ==
    /\ bmod \in RunModules
    /\ bsection = RESOURCES_SECTION
    /\ barchive = <<>>
    /\ bfirst = <<>> /\ ca = NoCreate
    /\ bpc = "virtfs_parse"
    /\ ps = InitParse(RESOURCES_SECTION, EncMod(bmod))
    /\ output = <<>> /\ apos = 0
    /\ root = empty_directory
    /\ rpc = "populate" /\ rcfg = NoConfig /\ rerr = ""
    /\ rstdio = <<"unset", "unset", "unset">> /\ inst = FALSE /\ guest = FALSE
    /\ exit = "none"

\* populate_virtfs(&mut root, bytes)?: one iteration of its parse; an error
\* leaves run as IoError.
RunPopulate ==
    /\ rpc = "populate"
    /\ VirtfsParseStep
    /\ rpc' = CASE bpc' = "virtfs_parse" -> "populate"
                [] bpc' = "virtfs_done"  -> "config"
                [] bpc' = "virtfs_err"   -> "failed"
                [] OTHER -> "panic"
    /\ rerr' = IF bpc' = "virtfs_err" THEN "IoError" ELSE rerr
    /\ UNCHANGED <<rcfg, rstdio, inst, guest>>

\* The read of config.yaml; without a configuration the handles are skipped.
RunConfig ==
    /\ rpc = "config"
    /\ \E c \in {LoadConfig(root)} :
         /\ rcfg' = c.cfg
         /\ rerr' = c.err
         /\ rpc' = IF c.err # "" THEN "failed"
                   ELSE IF c.cfg.some THEN "stdin" ELSE "ctx"
    /\ UNCHANGED <<rstdio, inst, guest>>

RunStdin ==
    /\ rpc = "stdin"
    /\ \E opened \in BOOLEAN : \E b \in {BindStdin(root, rcfg.stdio[1], opened)} :
         /\ rstdio' = [rstdio EXCEPT ![1] = b.bind]
         /\ rerr' = b.err
         /\ rpc' = IF b.err # "" THEN "failed" ELSE "stdout"
    /\ UNCHANGED <<rcfg, inst, guest>>

RunStdout ==
    /\ rpc = "stdout"
    /\ \E opened \in BOOLEAN : \E b \in {BindOutput(rcfg.stdio[2], opened)} :
         /\ rstdio' = [rstdio EXCEPT ![2] = b.bind]
         /\ rerr' = b.err
         /\ rpc' = IF b.err # "" THEN "failed" ELSE "stderr"
    /\ UNCHANGED <<rcfg, inst, guest>>

RunStderr ==
    /\ rpc = "stderr"
    /\ \E opened \in BOOLEAN : \E b \in {BindOutput(rcfg.stdio[3], opened)} :
         /\ rstdio' = [rstdio EXCEPT ![3] = b.bind]
         /\ rerr' = b.err
         /\ rpc' = IF b.err # "" THEN "failed" ELSE "ctx"
    /\ UNCHANGED <<rcfg, inst, guest>>

\* preopened_virt, builder.build, Wasi::new, add_to_linker, Module::from_binary
\* and linker.module: each failure is InstantiationFailed.
RunInstantiate ==
    /\ rpc = "ctx"
    /\ \E ok \in BOOLEAN :
         /\ inst' = ok
         /\ rerr' = IF ok THEN "" ELSE "InstantiationFailed"
         /\ rpc' = IF ok THEN "export" ELSE "failed"
    /\ UNCHANGED <<rcfg, rstdio, guest>>

\* get_default with its failure reported as the failures before it are.
ExportErrorAsInstantiation(found) == IF found THEN "" ELSE "InstantiationFailed"

\* linker.get_default("").or(Err(Error::ExportNotFound)); `found` is whether
\* the module has a default export.
ExportError(found) == IF found THEN "" ELSE "ExportNotFound"

\* linker.get_default(""): the default export, or ExportNotFound.
RunExport ==
    /\ rpc = "export"
    /\ \E found \in BOOLEAN :
         /\ rerr' = ExportError(found)
         /\ rpc' = IF found THEN "call" ELSE "failed"
    /\ UNCHANGED <<rcfg, rstdio, inst, guest>>

\* function.call: the guest runs; a trap is CallFailed.
RunCall ==
    /\ rpc = "call"
    /\ guest' = TRUE
    /\ \E ok \in BOOLEAN :
         /\ rerr' = IF ok THEN "" ELSE "CallFailed"
         /\ rpc' = IF ok THEN "returned" ELSE "failed"
    /\ UNCHANGED <<rcfg, rstdio, inst>>

\* What a stream of the WasiCtx is, from what the builder was given:
\* WasiCtxBuilder::new() starts with the three streams on the null device.
BuilderStream(given) == IF given = "unset" THEN "null" ELSE given

\* What run came to: "Ok", the Error it returned, or "panic".
RunResult ==
    IF rpc = "panic" THEN "panic" ELSE IF rpc = "returned" THEN "Ok" ELSE rerr

\* create_new_runtime: workload::run(..).expect(..), then Ok(true).
create_new_runtime(result) == IF result = "Ok" THEN "Ok" ELSE "panic"

\* payload_run_sync: process::exit(0) on Ok and process::exit(1) on Err; a
\* panic on the main thread ends the process with the status of a panic
\* (101, or an abort), which is neither.
payload_run_sync(created) ==
    CASE created = "Ok"  -> "0"
      [] created = "Err" -> "1"
      [] OTHER -> "panic"

\* main's call of payload_run_sync, once run is over.
PayloadRunSync ==
    /\ rpc \in {"returned", "failed", "panic"} /\ exit = "none"
    /\ exit' = payload_run_sync(create_new_runtime(RunResult))

(***************************************************************************)
(* The virtual filesystem on its own: the populate loop over an archive,   *)
(* then reads of the populated tree.                                       *)
(***************************************************************************)
MaxEntries == 2      \* entries of an archive
MaxBuf     == 2      \* length of a read buffer
MaxOff     == 3      \* read offset

Names == {"a", "b", "c"}
QueryPaths ==
    {<<>>} \cup {<<x>> : x \in Names} \cup {<<x, y>> : x \in Names, y \in Names}
    \cup {<<"..", "a">>, <<"a", "..">>}

\* The entries whose paths the reads can name.
VfsCodes == {c \in 1..Len(TarEntryTable) : TarEntryTable[c].path \in QueryPaths}
Archives == UNION {[1..n -> VfsCodes] : n \in 0..MaxEntries}

\* The populate loop on its own, over every kind of path.
MaxPathEntries == 2
PathCodes == {c \in 1..Len(TarEntryTable) : TarEntryTable[c].path # <<"config.yaml">>}
PathArchives == UNION {[1..n -> PathCodes] : n \in 0..MaxPathEntries}

\* The buffers of a preadv or pwritev, by their lengths: none, one or two.
IovLens ==
    {<<>>} \cup {<<x>> : x \in 0..MaxBuf} \cup {<<x, y>> : x \in 0..MaxBuf, y \in 0..MaxBuf}

RECURSIVE SumSeq(_)
SumSeq(q) == IF q = <<>> THEN 0 ELSE Head(q) + SumSeq(Tail(q))

NoRead == [path |-> <<>>, buflen |-> 0, off |-> 0, err |-> "none", n |-> 0, data |-> <<>>]
NoWrite == [op |-> "none", path |-> <<>>, len |-> 0, off |-> 0, err |-> "", n |-> 0]
NoSeq  == [path |-> <<>>, pos |-> 0, acc |-> <<>>, st |-> "closed"]

VfsIdle ==
    /\ archive = <<>> /\ vpc = "idle" /\ vnext = 0 /\ rd = NoRead /\ wr = NoWrite /\ sq = NoSeq

VfsInit ==
    /\ archive \in Archives
    /\ root = empty_directory
    /\ vpc = "populate" /\ vnext = 1 /\ rd = NoRead /\ wr = NoWrite /\ sq = NoSeq

PathInit ==
    /\ archive \in PathArchives
    /\ root = empty_directory
    /\ vpc = "populate" /\ vnext = 1 /\ rd = NoRead /\ wr = NoWrite /\ sq = NoSeq

\* One turn of `for entry in ar.entries()? { root.populate(rc.clone(), &entry)? }`.
PopulateEntry ==
    /\ vpc = "populate" /\ vnext <= Len(archive)
    /\ LET r == populate(root, archive, TarEntries(archive)[vnext]) IN
       /\ root' = r.e
       /\ vpc' = IF r.st = "ok" THEN "populate" ELSE r.st
    /\ vnext' = vnext + 1
    /\ UNCHANGED <<archive, rd, wr, sq>>

\* The loop ends: the tree is populated.
PopulateDone ==
    /\ vpc = "populate" /\ vnext > Len(archive)
    /\ vpc' = "ready"
    /\ UNCHANGED <<archive, root, vnext, rd, wr, sq>>

\* The paths for which lookup answers a File.
FilePaths == {q \in QueryPaths : lookup(root, q).kind = "File"}

\* lookup(path) answers a File; pread(buf, off) on it.
Pread ==
    /\ vpc = "ready" /\ sq.st = "closed"
    /\ \E path \in FilePaths, buflen \in 0..MaxBuf, off \in 0..MaxOff :
         LET f == lookup(root, path) IN
         LET r == pread(f, buflen, off) IN
            rd' = [path |-> path, buflen |-> buflen, off |-> off,
                   err |-> r.err, n |-> r.n, data |-> r.data]
    /\ wr' = NoWrite
    /\ UNCHANGED <<archive, root, vpc, vnext, sq>>

\* lookup(path) answers a File; preadv(iovs, off) on it.
Preadv ==
    /\ vpc = "ready" /\ sq.st = "closed" /\ rd = NoRead /\ wr = NoWrite
    /\ \E path \in FilePaths, iovs \in IovLens, off \in 0..MaxOff :
         LET f == lookup(root, path) IN
         LET r == preadv(f, iovs, off) IN
            rd' = [path |-> path, buflen |-> SumSeq(iovs), off |-> off,
                   err |-> r.err, n |-> r.n, data |-> r.data]
    /\ wr' = NoWrite
    /\ UNCHANGED <<archive, root, vpc, vnext, sq>>

\* lookup(path) answers a File; size() on it.
Size ==
    /\ vpc = "ready" /\ sq.st = "closed" /\ rd = NoRead /\ wr = NoWrite
    /\ \E path \in QueryPaths :
         LET f == lookup(root, path) IN
         /\ f.kind = "File"
         /\ wr' = [op |-> "size", path |-> path, len |-> 0, off |-> 0,
                   err |-> "", n |-> size(f)]
    /\ rd' = NoRead
    /\ UNCHANGED <<archive, root, vpc, vnext, sq>>

\* lookup(path) answers a File; resize(new_size) on it, through &mut.
Resize ==
    /\ vpc = "ready" /\ sq.st = "closed" /\ rd = NoRead /\ wr = NoWrite
    /\ \E path \in FilePaths, new_size \in 0..MaxOff :
         LET f == lookup(root, path) IN
         LET r == resize(f, new_size) IN
            /\ root' = ReplaceAt(root, path, r.f)
            /\ wr' = [op |-> "resize", path |-> path, len |-> new_size, off |-> 0,
                      err |-> r.err, n |-> r.n]
    /\ rd' = NoRead
    /\ UNCHANGED <<archive, vpc, vnext, sq>>

\* lookup(path) answers a File; pwrite(buf, off) on it, through &mut.
Pwrite ==
    /\ vpc = "ready" /\ sq.st = "closed" /\ rd = NoRead /\ wr = NoWrite
    /\ \E path \in FilePaths, buflen \in 0..MaxBuf, off \in 0..MaxOff :
         LET f == lookup(root, path) IN
         LET r == pwrite(f, buflen, off) IN
            /\ root' = ReplaceAt(root, path, r.f)
            /\ wr' = [op |-> "pwrite", path |-> path, len |-> buflen, off |-> off,
                      err |-> r.err, n |-> r.n]
    /\ rd' = NoRead
    /\ UNCHANGED <<archive, vpc, vnext, sq>>

\* lookup(path) answers a File; pwritev(iovs, off) on it, through &mut.
Pwritev ==
    /\ vpc = "ready" /\ sq.st = "closed" /\ rd = NoRead /\ wr = NoWrite
    /\ \E path \in FilePaths, iovs \in IovLens, off \in 0..MaxOff :
         LET f == lookup(root, path) IN
         LET r == pwritev(f, iovs, off) IN
            /\ root' = ReplaceAt(root, path, r.f)
            /\ wr' = [op |-> "pwritev", path |-> path, len |-> SumSeq(iovs), off |-> off,
                      err |-> r.err, n |-> r.n]
    /\ rd' = NoRead
    /\ UNCHANGED <<archive, vpc, vnext, sq>>

\* The caller is done with the answer of its last call.
Return ==
    /\ vpc = "ready" /\ (rd # NoRead \/ wr # NoWrite)
    /\ rd' = NoRead /\ wr' = NoWrite
    /\ UNCHANGED <<archive, root, vpc, vnext, sq>>

\* A reader opens a file at offset 0 ...
SeqOpen ==
    /\ vpc = "ready" /\ sq.st = "closed" /\ rd = NoRead
    /\ \E path \in QueryPaths :
         /\ lookup(root, path).kind = "File"
         /\ sq' = [path |-> path, pos |-> 0, acc |-> <<>>, st |-> "open"]
    /\ UNCHANGED <<archive, root, vpc, vnext, rd, wr>>

\* ... and reads on from where the last pread stopped, until one returns 0.
SeqRead ==
    /\ vpc = "ready" /\ sq.st = "open"
    /\ \E buflen \in 1..MaxBuf :
         LET r == pread(lookup(root, sq.path), buflen, sq.pos) IN
         sq' = [sq EXCEPT !.pos = @ + r.n,
                          !.acc = @ \o r.data,
                          !.st  = IF r.err # "" THEN "failed"
                                  ELSE IF r.n = 0 THEN "eof" ELSE "open"]
    /\ UNCHANGED <<archive, root, vpc, vnext, rd, wr>>



(***************************************************************************)
(* attestation::attest.  The syscall leaves a signed length in rax (isize) *)
(* and the TEE kind in rdx (usize).  The model keeps the two integer       *)
(* widths the mapping involves, isize and the i32 of a raw OS error,       *)
(* scaled down: IsizeBits and I32Bits stand for 64 and 32.                 *)
(***************************************************************************)
IsizeBits == 6
I32Bits   == 4
MaxKind   == 3       \* rdx ranges over 0..MaxKind

IsizeMin == -(2 ^ (IsizeBits - 1))
IsizeMax == 2 ^ (IsizeBits - 1) - 1
I32Max   == 2 ^ (I32Bits - 1) - 1

\* The value of x in two's complement on `bits` bits.
WrapSigned(x, bits) ==
    LET m == 2 ^ bits
        y == x % m
    IN  IF y >= m \div 2 THEN y - m ELSE y

NoAttest ==
    [rax |-> 0, rdx |-> 0, checked |-> FALSE,
     res |-> "none", kind |-> "", errno |-> 0, len |-> 0]

\* attest with the match on rdx ahead of the test of rax.
attestKindFirst(rax, rdx, checked) ==
    LET r == [rax |-> rax, rdx |-> rdx, checked |-> checked,
              res |-> "", kind |-> "", errno |-> 0, len |-> 0]
    IN  CASE rdx = 0 -> [r EXCEPT !.res = "None"]
          [] rdx = 1 /\ rax >= 0 -> [r EXCEPT !.res = "Sev", !.len = rax]
          [] rdx = 2 /\ rax >= 0 -> [r EXCEPT !.res = "Sgx", !.len = rax]
          [] rdx \in {1, 2} /\ rax < 0 ->
                [r EXCEPT !.res = "Err", !.kind = "Os",
                          !.errno = WrapSigned(WrapSigned(-rax, IsizeBits), I32Bits)]
          [] OTHER -> [r EXCEPT !.res = "Err", !.kind = "Other"]

\* The part of attest after the syscall.  `checked` says whether the build
\* checks arithmetic overflow (then -rax panics for isize::MIN) or wraps.
attest(rax, rdx, checked) ==
    LET r == [rax |-> rax, rdx |-> rdx, checked |-> checked,
              res |-> "", kind |-> "", errno |-> 0, len |-> 0]
    IN  IF rax < 0 THEN
            IF checked /\ -rax > IsizeMax THEN [r EXCEPT !.res = "panic"]
            ELSE [r EXCEPT !.res = "Err", !.kind = "Os",
                           !.errno = WrapSigned(WrapSigned(-rax, IsizeBits), I32Bits)]
        ELSE CASE rdx = 0 -> [r EXCEPT !.res = "None"]
               [] rdx = 1 -> [r EXCEPT !.res = "Sev", !.len = rax]
               [] rdx = 2 -> [r EXCEPT !.res = "Sgx", !.len = rax]
               [] OTHER   -> [r EXCEPT !.res = "Err", !.kind = "Other"]

\* retrieve_existing_key's locals: the hint of the probe, the buffer
\* (cbor_key_bytes) as the second call left it, the length that call
\* returned, the slice handed to the CBOR decoder, and what
\* generate_credentials came to.
NoKey ==
    [pc |-> "idle", hint |-> 0, buf |-> <<>>, kind |-> "", len |-> 0,
     decoded |-> <<>>, out |-> "none"]

AttestIdle == att = NoAttest /\ key = NoKey

AttestInit == att = NoAttest /\ key = NoKey

\* One call of attest: the syscall returns any pair of registers.
Attest ==
    /\ att.res = "none"
    /\ \E rax \in IsizeMin..IsizeMax, rdx \in 0..MaxKind, checked \in BOOLEAN :
         att' = attest(rax, rdx, checked)
    /\ UNCHANGED key

(***************************************************************************)
(* main::retrieve_existing_key and generate_credentials.  A report is a    *)
(* sequence of bytes; 0 is the CBOR item for the integer 0, 64 + n opens a *)
(* byte string of n bytes, and the PEM parser accepts the strings made of  *)
(* the byte 75 alone.                                                      *)
(***************************************************************************)
MaxHint == 3         \* the largest length the probe hints at
ReportBytes == {0, 65, 66, 75}

Zeros(n) == [i \in 1..n |-> 0]

\* ciborium::de::from_reader::<Value>: the first item of `bytes`; what
\* follows the item is left unread.
CborDecode(bytes) ==
    IF bytes = <<>> THEN [k |-> "err", bytes |-> <<>>]
    ELSE IF bytes[1] < 24 THEN [k |-> "Integer", bytes |-> <<>>]
    ELSE IF bytes[1] \in 64..87 THEN
        IF Len(bytes) - 1 < bytes[1] - 64 THEN [k |-> "err", bytes |-> <<>>]
        ELSE [k |-> "Bytes", bytes |-> SubSeq(bytes, 2, bytes[1] - 63)]
    ELSE [k |-> "Other", bytes |-> <<>>]

\* Rsa::private_key_from_pem is Ok.
IsPem(bytes) == bytes # <<>> /\ \A i \in 1..Len(bytes) : bytes[i] = 75

\* The registers a call of the syscall may leave: an error, or a length of
\* at most `cap`.
SyscallRax(cap) == {IsizeMin, -1} \cup 0..cap

KeyInit == att = NoAttest /\ key = [NoKey EXCEPT !.pc = "probe"]

\* The size probe: attest(&[], &mut []) and the match on its result.
KeyProbe ==
    /\ key.pc = "probe"
    /\ \E rax \in SyscallRax(MaxHint), rdx \in 0..MaxKind, checked \in BOOLEAN :
         \E r \in {attest(rax, rdx, checked)} :
            /\ att' = r
            /\ key' = IF r.res = "panic" THEN [key EXCEPT !.pc = "panic"]
                      ELSE IF r.res = "Sev" /\ r.len > 0
                      THEN [key EXCEPT !.pc = "fetch", !.hint = r.len]
                      ELSE [key EXCEPT !.pc = "absent"]

\* The second call, on a zeroed buffer of `hint` bytes, and its unwrap: the
\* syscall writes a report of rax bytes at the start of the buffer.
KeyFetch ==
    /\ key.pc = "fetch"
    /\ \E rax \in SyscallRax(key.hint), rdx \in 0..MaxKind, checked \in BOOLEAN :
         \E r \in {attest(rax, rdx, checked)} :
            /\ att' = r
            /\ IF r.res \in {"Err", "panic"}
               THEN key' = [key EXCEPT !.pc = "panic"]
               ELSE \E report \in [1..rax -> ReportBytes] :
                      key' = [key EXCEPT !.pc = "decode",
                                         !.buf = report \o Zeros(key.hint - rax),
                                         !.kind = r.res,
                                         !.len = rax]

\* from_reader(cbor_key_bytes.as_slice()).unwrap(), the match on
\* Value::Bytes and private_key_from_pem.
KeyDecode ==
    /\ key.pc = "decode"
    /\ \E d \in {CborDecode(key.buf)} :
         key' = [key EXCEPT !.decoded = key.buf,
                            !.pc = IF d.k # "Bytes" THEN "panic"
                                   ELSE IF IsPem(d.bytes) THEN "some"
                                   ELSE "absent"]
    /\ UNCHANGED att

\* generate_credentials: the retrieved key, or Rsa::generate(2048).
GenerateCredentials ==
    /\ key.pc \in {"some", "absent"}
    /\ key' = [key EXCEPT !.pc = "done",
                          !.out = IF key.pc = "some" THEN "retrieved" ELSE "generated"]
    /\ UNCHANGED att


(***************************************************************************)
(* The loader front-end (main.rs).  Requests are POST /workload; each runs *)
(* payload_load as a task of the single-threaded runtime, so steps         *)
(* interleave at the awaits: the mutex lock and the channel send.          *)
(*   hpc[r] = "none"      not sent                                         *)
(*            "inflight"  accepted; payload_load waits for the mutex       *)
(*            "locked"    holds the mutex, before the decode               *)
(*            "trig"      wrote the slot, inside do_trig's send            *)
(*            "replied" / "rejected" / "closed"   finished                 *)
(*   srv    = "serving", "draining" (shutdown future completed, waiting    *)
(*            for the connections in flight), "done"                       *)
(*   mpc    = "serve" (main awaits the service), "lock", "run"             *)
(***************************************************************************)
NumRequests == 2
ChannelCap  == 1     \* channel(1)

Requests == 1..NumRequests

\* new_empty_workload_package: wasm_binary is vec![0].
EmptyBinary == <<0>>

\* A POST body: CBOR that decodes to a Workload with its own wasm_binary,
\* or bytes that do not decode.
Bodies(r) == {[ok |-> TRUE, wasm |-> <<r>>], [ok |-> FALSE, wasm |-> <<>>]}

LoaderIdle ==
    /\ hpc = <<>> /\ hbody = <<>> /\ mutex = <<>> /\ slot = <<>>
    /\ writes = <<>> /\ chan = 0 /\ rxopen = FALSE /\ srv = "idle"
    /\ mpc = "idle" /\ ran = <<>>

\* main up to `service.await`.
LoaderInit ==
    /\ hpc = [r \in Requests |-> "none"]
    /\ hbody \in [Requests -> UNION {Bodies(r) : r \in Requests}]
    /\ \A r \in Requests : hbody[r] \in Bodies(r)
    /\ mutex = <<>>
    /\ slot = EmptyBinary
    /\ writes = <<>>
    /\ chan = 0 /\ rxopen = TRUE
    /\ srv = "serving"
    /\ mpc = "serve" /\ ran = <<>>

Active(r) == hpc[r] \in {"inflight", "locked", "trig"}

\* The server accepts a connection and its request while it is serving.
Accept(r) ==
    /\ srv = "serving" /\ hpc[r] = "none"
    /\ hpc' = [hpc EXCEPT ![r] = "inflight"]
    /\ UNCHANGED <<hbody, mutex, slot, writes, chan, rxopen, srv, mpc, ran>>

\* payload_load: workload_package.lock().await succeeds.
HandlerLock(r) ==
    /\ hpc[r] = "inflight" /\ mutex = <<>>
    /\ mutex' = <<"handler", r>>
    /\ hpc' = [hpc EXCEPT ![r] = "locked"]
    /\ UNCHANGED <<hbody, slot, writes, chan, rxopen, srv, mpc, ran>>

\* payload_load: de::from_slice succeeds, `*wlp = workload`.
HandlerStore(r) ==
    /\ hpc[r] = "locked" /\ hbody[r].ok
    /\ slot' = hbody[r].wasm
    /\ writes' = Append(writes, hbody[r].wasm)
    /\ hpc' = [hpc EXCEPT ![r] = "trig"]
    /\ UNCHANGED <<hbody, mutex, chan, rxopen, srv, mpc, ran>>

\* payload_load: de::from_slice fails, the request is rejected; the guard
\* is dropped.
HandlerReject(r) ==
    /\ hpc[r] = "locked" /\ ~hbody[r].ok
    /\ hpc' = [hpc EXCEPT ![r] = "rejected"]
    /\ mutex' = <<>>
    /\ UNCHANGED <<hbody, slot, writes, chan, rxopen, srv, mpc, ran>>

\* Trigger::do_trig: send(()).await completes, with room in the channel or
\* with an error once the receiver is gone (the result is dropped); the
\* reply is built and the guard dropped.  With the channel full and the
\* receiver alive the send stays pending.
HandlerTrigger(r) ==
    /\ hpc[r] = "trig"
    /\ \/ rxopen /\ chan < ChannelCap /\ chan' = chan + 1
       \/ ~rxopen /\ chan' = chan
    /\ hpc' = [hpc EXCEPT ![r] = "replied"]
    /\ mutex' = <<>>
    /\ UNCHANGED <<hbody, slot, writes, rxopen, srv, mpc, ran>>

\* The shutdown future: rx.recv().await returns; the receiver is dropped
\* with the future.  The server stops accepting.
ShutdownSignal ==
    /\ srv = "serving" /\ chan > 0
    /\ chan' = chan - 1
    /\ rxopen' = FALSE
    /\ srv' = "draining"
    /\ UNCHANGED <<hpc, hbody, mutex, slot, writes, mpc, ran>>

\* Graceful shutdown ends when no connection is in flight.
ServerFinish ==
    /\ srv = "draining"
    /\ \A r \in Requests : ~Active(r)
    /\ srv' = "done"
    /\ UNCHANGED <<hpc, hbody, mutex, slot, writes, chan, rxopen, mpc, ran>>

\* main going on as soon as the shutdown future has completed.
ShutdownSignalled == srv # "serving"

\* main: `service.await` has completed.
ServiceAwaited == srv = "done"

MainAwait ==
    /\ mpc = "serve" /\ ServiceAwaited
    /\ mpc' = "lock"
    /\ UNCHANGED <<hpc, hbody, mutex, slot, writes, chan, rxopen, srv, ran>>

\* main: workload_package.lock().await, then payload_run_sync(&wlp.wasm_binary),
\* which runs the workload and exits the process.
MainRun ==
    /\ mpc = "lock" /\ mutex = <<>>
    /\ mutex' = <<"main">>
    /\ ran' = slot
    /\ mpc' = "run"
    /\ UNCHANGED <<hpc, hbody, slot, writes, chan, rxopen, srv>>


(***************************************************************************)
(* The specifications.  A step of one component leaves the variables of    *)
(* the others alone.                                                       *)
(***************************************************************************)
InitBundle ==
    /\ comp = "bundle"
    /\ BuildInit \/ VirtfsInit
    /\ root = empty_directory
    /\ VfsIdle /\ AttestIdle /\ LoaderIdle /\ RunIdle

InitVfs ==
    /\ comp = "vfs"
    /\ VfsInit
    /\ BundleIdle /\ AttestIdle /\ LoaderIdle /\ RunIdle

InitFile ==
    /\ comp = "file"
    /\ VfsInit
    /\ BundleIdle /\ AttestIdle /\ LoaderIdle /\ RunIdle

InitPopulate ==
    /\ comp = "populate"
    /\ PathInit
    /\ BundleIdle /\ AttestIdle /\ LoaderIdle /\ RunIdle

InitKey ==
    /\ comp = "key"
    /\ KeyInit
    /\ BundleIdle /\ VfsIdle /\ root = empty_directory /\ LoaderIdle /\ RunIdle

InitAttest ==
    /\ comp = "attest"
    /\ AttestInit
    /\ BundleIdle /\ VfsIdle /\ root = empty_directory /\ LoaderIdle /\ RunIdle

InitLoader ==
    /\ comp = "loader"
    /\ LoaderInit
    /\ BundleIdle /\ VfsIdle /\ root = empty_directory /\ AttestIdle /\ RunIdle

InitRun ==
    /\ comp = "run"
    /\ RunInit
    /\ VfsIdle /\ AttestIdle /\ LoaderIdle

InitCreate ==
    /\ comp = "create"
    /\ CreateInit
    /\ root = empty_directory
    /\ VfsIdle /\ AttestIdle /\ LoaderIdle /\ RunIdle

InitCut ==
    /\ comp = "cut"
    /\ CutInit
    /\ root = empty_directory
    /\ VfsIdle /\ AttestIdle /\ LoaderIdle /\ RunIdle

Init ==
    \/ InitBundle \/ InitVfs \/ InitAttest \/ InitLoader \/ InitRun
    \/ InitCreate \/ InitCut \/ InitPopulate \/ InitFile \/ InitKey

BuildFrame  == UNCHANGED <<ca, vfsVars, attestVars, loaderVars, runVars, exit, comp>>
CreateFrame == UNCHANGED <<vfsVars, attestVars, loaderVars, runVars, exit, comp>>
VirtfsFrame ==
    UNCHANGED <<ca, archive, vpc, vnext, rd, wr, sq, attestVars, loaderVars, runVars, exit, comp>>
VfsFrame    == UNCHANGED <<bundleVars, attestVars, loaderVars, runVars, exit, comp>>
AttestFrame == UNCHANGED <<bundleVars, vfsVars, loaderVars, runVars, exit, comp>>
LoaderFrame == UNCHANGED <<bundleVars, vfsVars, attestVars, runVars, exit, comp>>
\* populate_virtfs inside run, and run after it
RunParseFrame == UNCHANGED <<ca, archive, vpc, vnext, rd, wr, sq, attestVars, loaderVars, exit, comp>>
ExitFrame   ==
    UNCHANGED <<bundleVars, vfsVars, attestVars, loaderVars, runVars, comp>>
RunFrame    == UNCHANGED <<bundleVars, vfsVars, attestVars, loaderVars, exit, comp>>

BundleStep ==
    \/ BuildParseStep /\ BuildFrame
    \/ BuildParseWriteFails /\ BuildFrame
    \/ BuildParseReadFails /\ BuildFrame
    \/ AppendHeader /\ BuildFrame
    \/ AppendHeaderFails /\ BuildFrame
    \/ CopyChunk /\ BuildFrame
    \/ CopyChunkFails /\ BuildFrame
    \/ StartRebuild /\ BuildFrame
    \/ StartReparse /\ BuildFrame
    \/ ReparseStep /\ BuildFrame
    \/ VirtfsParseStep /\ VirtfsFrame

\* build from its first statement, without failures of the later writes
CreateStep ==
    \/ Tempfile /\ CreateFrame
    \/ CreateEntry /\ CreateFrame
    \/ CreateFinish /\ CreateFrame
    \/ BuildParseStep /\ BuildFrame
    \/ AppendHeader /\ BuildFrame
    \/ CopyChunk /\ BuildFrame

\* parse on its own, its reader a byte slice that never fails
CutStep == BuildParseStep /\ BuildFrame

VfsStep ==
    \/ PopulateEntry /\ VfsFrame
    \/ PopulateDone /\ VfsFrame
    \/ Pread /\ VfsFrame
    \/ SeqOpen /\ VfsFrame
    \/ SeqRead /\ VfsFrame

\* Every call of FileContents on the files of a populated tree.
FileStep ==
    \/ PopulateEntry /\ VfsFrame
    \/ PopulateDone /\ VfsFrame
    \/ Pread /\ VfsFrame
    \/ Preadv /\ VfsFrame
    \/ Size /\ VfsFrame
    \/ Resize /\ VfsFrame
    \/ Pwrite /\ VfsFrame
    \/ Pwritev /\ VfsFrame
    \/ Return /\ VfsFrame

PopulateStep ==
    \/ PopulateEntry /\ VfsFrame
    \/ PopulateDone /\ VfsFrame

AttestStep ==
    \/ Attest /\ AttestFrame

KeyStep ==
    \/ KeyProbe /\ AttestFrame
    \/ KeyFetch /\ AttestFrame
    \/ KeyDecode /\ AttestFrame
    \/ GenerateCredentials /\ AttestFrame

LoaderStep ==
    \/ (\E r \in Requests : Accept(r)) /\ LoaderFrame
    \/ (\E r \in Requests : HandlerLock(r)) /\ LoaderFrame
    \/ (\E r \in Requests : HandlerStore(r)) /\ LoaderFrame
    \/ (\E r \in Requests : HandlerReject(r)) /\ LoaderFrame
    \/ (\E r \in Requests : HandlerTrigger(r)) /\ LoaderFrame
    \/ ShutdownSignal /\ LoaderFrame
    \/ ServerFinish /\ LoaderFrame
    \/ MainAwait /\ LoaderFrame
    \/ MainRun /\ LoaderFrame

RunStep ==
    \/ RunPopulate /\ RunParseFrame
    \/ RunConfig /\ RunFrame
    \/ RunStdin /\ RunFrame
    \/ RunStdout /\ RunFrame
    \/ RunStderr /\ RunFrame
    \/ RunInstantiate /\ RunFrame
    \/ RunExport /\ RunFrame
    \/ RunCall /\ RunFrame
    \/ PayloadRunSync /\ ExitFrame

Next ==
    \/ BundleStep \/ VfsStep \/ AttestStep \/ LoaderStep \/ RunStep
    \/ CreateStep \/ CutStep \/ PopulateStep \/ FileStep \/ KeyStep

Spec == Init /\ [][Next]_vars

SpecBundle == InitBundle /\ [][BundleStep]_vars
SpecVfs    == InitVfs /\ [][VfsStep]_vars
SpecFile   == InitFile /\ [][FileStep]_vars
SpecPopulate == InitPopulate /\ [][PopulateStep]_vars
SpecAttest == InitAttest /\ [][AttestStep]_vars
SpecKey    == InitKey /\ [][KeyStep]_vars
SpecLoader == InitLoader /\ [][LoaderStep]_vars
SpecRun    == InitRun /\ [][RunStep]_vars
SpecCreate == InitCreate /\ [][CreateStep]_vars
\* the loop of parse runs on: each iteration is a step of the running call
SpecCut    == InitCut /\ [][CutStep]_vars /\ WF_vars(CutStep)


(***************************************************************************)
(* Properties of the bundle codec (SpecBundle).                            *)
(***************************************************************************)
\* `ps` belongs to the call of parse on EncMod(bmod), in build or in
\* populate_virtfs, and that call has returned Ok.
ParseOfInput ==
    /\ bfirst = <<>>
    /\ bpc \in {"build_parse", "append", "copy", "built", "build_err",
                "virtfs_parse", "virtfs_done", "virtfs_err", "virtfs_panic"}

ParseReturnedOk == ParseOfInput /\ ps.pc = "ok"

IsPrefix(s, t) == Len(s) <= Len(t) /\ SubSeq(t, 1, Len(s)) = s

\* The input positions (from 1) of the bytes handed to handle_default so far.
ForwardedPositions ==
    UNION {(ps.ranges[k][1] + 1)..(ps.ranges[k][1] + ps.ranges[k][2]) :
              k \in 1..Len(ps.ranges)}

\* What build should leave in output: the module without its sections named
\* `sect`, then one custom section `sect` holding the archive.
Bundled(m, sect, ar) ==
    Unowned(EncMod(m), OwnedMod(m, sect)) \o EncSec(CustomSec(sect, ar))

\* C1: for a plain module M (none of its custom sections is named `section`),
\* parse over what build(M, P) wrote returns Ok, hands on_custom exactly the
\* archive built from P, and hands on_default slices whose concatenation is M.
C1_BundleRoundTrip ==
    (bpc \in {"done", "reparse_err"} /\ bfirst = <<>> /\ IsPlain(bmod, bsection)) =>
        /\ bpc = "done"
        /\ ps.custom = <<barchive>>
        /\ ps.deflt = EncMod(bmod)

\* C2: when parse returns Ok on a well-formed input, nested modules included,
\* the slices handed to on_default, concatenated in order, are the input with
\* exactly the custom sections named `section` removed, and every byte outside
\* those sections was forwarded.
C2_ParseLengthPreserving ==
    ParseReturnedOk =>
        /\ ps.deflt = Unowned(EncMod(bmod), OwnedMod(bmod, bsection))
        /\ LET owned == OwnedMod(bmod, bsection)
           IN  ForwardedPositions = {i \in 1..Len(owned) : ~owned[i]}

\* C3: parse hands on_custom the payloads of the custom sections named
\* `section`, one call per section and in input order (all of them once it
\* returns Ok), and no byte of such a section is handed to on_default; in
\* populate_virtfs a module without a resources section leaves the root an
\* empty directory.
C3_OnCustomOncePerSection ==
    ParseOfInput =>
        /\ IsPrefix(ps.custom, CustomsOf(bmod, bsection))
        /\ (ps.pc = "ok" => ps.custom = CustomsOf(bmod, bsection))
        /\ LET owned == OwnedMod(bmod, bsection)
           IN  \A i \in ForwardedPositions : ~owned[i]
        /\ (IsPlain(bmod, bsection) => root = empty_directory)

\* populate_virtfs returned Ok on a module with two resources sections: the
\* closure ran twice and the tree is populated.
C3_Witness ==
    /\ bpc = "virtfs_done"
    /\ Len(ps.custom) = 2
    /\ ps.custom = CustomsOf(bmod, bsection)
    /\ root # empty_directory

\* C10: when build returns Ok, output holds the complete bundled module: all
\* of the forwarded module, then the whole appended section.
C10_BuildAtomic ==
    (bpc = "built" /\ bfirst = <<>>) => output = Bundled(bmod, bsection, barchive)

IsSuffix(s, t) == Len(s) <= Len(t) /\ SubSeq(t, Len(t) - Len(s) + 1, Len(t)) = s

\* C11: build on a module that already holds custom sections named `section`
\* writes a module with exactly one such section, the new archive, placed
\* last; and build applied again to what build wrote, with the same paths and
\* section, returns Ok with the same bytes.  (A failing read or write of the
\* environment is not the claim's case.)
C11_RebundleDedups ==
    /\ (bpc = "built" /\ bfirst = <<>> /\ ~IsPlain(bmod, bsection)) =>
            IsSuffix(EncSec(CustomSec(bsection, barchive)), output)
    /\ (bpc \in {"done", "reparse_err"} /\ bfirst = <<>> /\ ~IsPlain(bmod, bsection)) =>
            (bpc = "done" /\ ps.custom = <<barchive>>)
    /\ (bpc = "built" /\ bfirst # <<>>) => output = bfirst
    /\ (bpc = "build_err" /\ bfirst # <<>>) => ps.pc \in {"ioerr", "ok"}

\* The paths of the Builder that do not begin with its prefix.
Unprefixed == {i \in 1..Len(ca.paths) : ~StartsWith(ca.paths[i], ca.prefix)}

MinOf(S) == CHOOSE i \in S : \A j \in S : i <= j

\* C13, as claimed: when some added path does not begin with the prefix,
\* build returns InvalidInput, and nothing has been written to output.  (A
\* failure of the temporary file or of the archive's reads and writes, kind
\* Other here, is left out of the claim's case.)
C13_PathRejection ==
    (comp = "create" /\ Unprefixed # {}) =>
        /\ bpc \in {"tempfile", "create", "build_err"}
        /\ output = <<>>
        /\ ((bpc = "build_err" /\ ca.err # "Other") => ca.err = "InvalidInput")

\* C13, amended: when some added path does not begin with the prefix, build
\* returns an error at that path or before it, nothing having been written
\* to output; the error is InvalidInput when create_archive fails at the
\* first such path and that path and its ancestors exist on the host.
C13_PathRejectionInOrder ==
    (comp = "create" /\ Unprefixed # {}) =>
        /\ bpc \in {"tempfile", "create", "build_err"}
        /\ output = <<>>
        /\ ca.i <= MinOf(Unprefixed)
        /\ (/\ bpc = "build_err"
            /\ ca.i = MinOf(Unprefixed)
            /\ \A k \in 1..Len(ca.paths[ca.i]) :
                   HostKind(SubSeq(ca.paths[ca.i], 1, k)) # "missing")
           => ca.err = "InvalidInput"

\* build returned InvalidInput at its second path, an existing file outside
\* the prefix, after archiving the first; output is empty.
C13_Witness ==
    /\ comp = "create" /\ bpc = "build_err" /\ ca.err = "InvalidInput"
    /\ ca.i = 2 /\ barchive # <<>>
    /\ ~StartsWith(ca.paths[2], ca.prefix)
    /\ HostKind(ca.paths[2]) = "file"
    /\ output = <<>>

\* The length of the whole input of the running parse: what was consumed,
\* what is buffered, what the reader still holds.
InputLen == ps.pos + Len(ps.buf) + Len(ps.input)

\* The input stops short of a module's end: it is not the serialisation of
\* the module made of the first k sections, for any k.
Truncated ==
    /\ comp = "cut"
    /\ InputLen \notin {Len(EncMod(SubSeq(bmod, 1, k))) : k \in 0..Len(bmod)}

\* C14: on an input that ends while the parser needs more data, the empty
\* input included, parse never returns Ok and never fails its assertion, it
\* records end-of-input only once the reader has nothing left, and it ends
\* by returning InvalidInput.
C14_TruncatedInvalidInput ==
    /\ [](Truncated => /\ ps.pc \in {"loop", "err"}
                       /\ (ps.eof => ps.input = <<>>))
    /\ <>(Truncated => ps.pc = "err")

\* The number a ULEB128 byte string stands for.
RECURSIVE LebValue(_)
LebValue(b) == IF b = <<>> THEN 0 ELSE (b[1] % 128) + 128 * LebValue(Tail(b))

\* b is the minimal ULEB128 encoding of v: every byte but the last has its
\* high bit set, and the last group is not a padding zero.
IsCanonicalLeb(b, v) ==
    /\ b # <<>>
    /\ \A i \in 1..(Len(b) - 1) : b[i] >= 128
    /\ b[Len(b)] < 128
    /\ (Len(b) > 1 => b[Len(b)] # 0)
    /\ LebValue(b) = v

\* What build wrote after the forwarded module.
AppendedSection == Drop(output, Len(ps.deflt))

\* C12: the section build appends is the byte 0, the ULEB128 content size,
\* the ULEB128 name length, the name, the tar bytes; the content size is the
\* length of the name-length field plus the name plus the tar, and both
\* integers are minimally encoded (fields of one to four bytes are tried).
C12_SectionLayout ==
    bpc = "built" =>
        \E lx \in 1..4, ly \in 1..4 :
            LET a == AppendedSection
                n == Len(bsection)
                t == Len(barchive)
            IN  /\ Len(a) = 1 + lx + ly + n + t
                /\ a[1] = 0
                /\ IsCanonicalLeb(SubSeq(a, 2, 1 + lx), ly + n + t)
                /\ IsCanonicalLeb(SubSeq(a, 2 + lx, 1 + lx + ly), n)
                /\ SubSeq(a, 2 + lx + ly, 1 + lx + ly + n) = bsection
                /\ SubSeq(a, 2 + lx + ly + n, Len(a)) = barchive

\* build returned Ok after appending a section whose content size needs two
\* ULEB128 bytes.
C12_Witness ==
    /\ bpc = "built"
    /\ Len(bsection) + Len(barchive) >= 128
    /\ AppendedSection[1] = 0
    /\ AppendedSection[2] >= 128


(***************************************************************************)
(* Properties of the virtual filesystem (SpecVfs).  The expected answers   *)
(* are read off the archive's entries, not off the tree.                   *)
(***************************************************************************)
IsProperPrefix(p, q) == Len(p) < Len(q) /\ SubSeq(q, 1, Len(p)) = p

MaxOf(S) == IF S = {} THEN 0 ELSE CHOOSE i \in S : \A j \in S : j <= i

\* The last regular-file entry at path p, and the last at a proper prefix
\* of p (0: none).
LastRegularAt(p) ==
    MaxOf({i \in 1..Len(archive) :
              /\ TarEntries(archive)[i].typ = "Regular"
              /\ TarEntries(archive)[i].path = p})
LastRegularAbove(p) ==
    MaxOf({i \in 1..Len(archive) :
              /\ TarEntries(archive)[i].typ = "Regular"
              /\ IsProperPrefix(TarEntries(archive)[i].path, p)})

\* The last entry whose insertion makes p a directory: a regular file below
\* p, or a directory entry at or below p.
LastCreates(p) ==
    MaxOf({i \in 1..Len(archive) :
              /\ p # <<>>
              /\ \/ /\ TarEntries(archive)[i].typ = "Regular"
                    /\ IsProperPrefix(p, TarEntries(archive)[i].path)
                 \/ /\ TarEntries(archive)[i].typ = "Directory"
                    /\ IsPrefix(p, TarEntries(archive)[i].path)})

InsertedFiles ==
    {TarEntries(archive)[i].path :
        i \in {j \in 1..Len(archive) : TarEntries(archive)[j].typ = "Regular"}}

\* The non-empty prefixes of the paths of the file and directory entries.
InsertedPrefixes ==
    UNION {{SubSeq(TarEntries(archive)[i].path, 1, k) :
               k \in 1..Len(TarEntries(archive)[i].path)} :
           i \in {j \in 1..Len(archive) :
                     TarEntries(archive)[j].typ \in {"Regular", "Directory"}}}

ContentOf(p) == TarEntries(archive)[LastRegularAt(p)].content

\* C5: pread(buf, off) on a populated File whose entry has content c of size
\* s returns n = min(len(buf), max(s - off, 0)) and leaves c[off..off+n] in
\* buf[..n]; successive preads from offset 0 reproduce c, and the pread that
\* returns 0 comes when all of c was read.
C5_PreadCorrect ==
    /\ rd.err # "none" =>
          LET c == ContentOf(rd.path)
              n == Min(rd.buflen, Max(Len(c) - rd.off, 0))
          IN  /\ rd.err = ""
              /\ rd.n = n
              /\ rd.data = SubSeq(c, rd.off + 1, rd.off + n)
              /\ (rd.off >= Len(c) => rd.n = 0)
    /\ sq.st # "closed" =>
          LET c == ContentOf(sq.path)
          IN  /\ sq.st # "failed"
              /\ sq.acc = Take(c, sq.pos)
              /\ (sq.st = "eof" => sq.acc = c)

\* A three-byte file read to its end in preads of at most MaxBuf bytes.
C5_Witness ==
    /\ sq.st = "eof"
    /\ Len(sq.acc) = 3
    /\ sq.acc = ContentOf(sq.path)


(***************************************************************************)
(* Properties of the loader front-end (SpecLoader).                        *)
(***************************************************************************)
\* C7: workload::run begins only when the server has fully shut down: the
\* shutdown future has completed, the serving future has finished, and no
\* request handler is active or holds the workload mutex.
C7_RunAfterShutdown ==
    mpc = "run" =>
        /\ srv = "done"
        /\ ~rxopen
        /\ \A r \in Requests : ~Active(r)
        /\ mutex = <<"main">>

\* main runs the workload a request stored and was answered for.
C7_Witness ==
    /\ mpc = "run"
    /\ \E r \in Requests : hpc[r] = "replied" /\ ran = hbody[r].wasm

\* C8: under any interleaving of POST /workload requests the workload slot
\* is written at most once, and run is given the first decoded workload.
C8_SingleWorkload ==
    /\ Len(writes) <= 1
    /\ (mpc = "run" /\ writes # <<>>) => ran = writes[1]


(***************************************************************************)
(* Properties of attest (SpecAttest).                                      *)
(***************************************************************************)
\* The mapping of a non-negative length by kind.
KindMapping ==
    CASE att.rdx = 0 -> att.res = "None"
      [] att.rdx = 1 -> att.res = "Sev" /\ att.len = att.rax
      [] att.rdx = 2 -> att.res = "Sgx" /\ att.len = att.rax
      [] OTHER -> att.res = "Err" /\ att.kind = "Other"

\* C9, as claimed: a negative len yields an OS error with errno = -len
\* whatever the kind; otherwise kind 0 is None, 1 is Sev(len), 2 is Sgx(len)
\* and any other kind is an error of kind Other.
C9_AttestMapping ==
    att.res # "none" =>
        IF att.rax < 0
        THEN att.res = "Err" /\ att.kind = "Os" /\ att.errno = -att.rax
        ELSE KindMapping

\* C9, amended: the errno of a negative len is -len converted to i32: -len
\* itself when it is at most i32::MAX, its low bits in two's complement
\* otherwise; isize::MIN, whose negation overflows, panics in a build that
\* checks overflow; a non-negative len is mapped by kind as claimed.
C9_AttestMappingI32 ==
    att.res # "none" =>
        IF att.rax < 0
        THEN IF att.checked /\ att.rax = IsizeMin THEN att.res = "panic"
             ELSE /\ att.res = "Err" /\ att.kind = "Os"
                  /\ att.errno \in (-I32Max - 1)..I32Max
                  /\ (att.errno + att.rax) % (2 ^ I32Bits) = 0
                  /\ (-att.rax <= I32Max => att.errno = -att.rax)
        ELSE KindMapping

\* A negative length beyond i32: the errno surfaced is not -len.
C9_Witness ==
    /\ att.res = "Err" /\ att.kind = "Os"
    /\ att.rax < -I32Max
    /\ att.errno # -att.rax


(***************************************************************************)
(* Properties of workload::run (SpecRun).                                  *)
(***************************************************************************)
\* The configuration sets stdin to Bundle(p) and p is missing from the tree
\* or is a Directory.
StdinUnresolved ==
    /\ rcfg.some
    /\ rcfg.stdio[1].k = "Bundle"
    /\ lookup(root, rcfg.stdio[1].path).kind # "File"

\* C6: when the configuration sets stdin to Bundle(p) and lookup(p) is missing
\* or a Directory, run returns ConfigurationError at the stdin handle: the
\* module is never instantiated and no guest code is called.
C6_UnresolvedStdinFails ==
    StdinUnresolved =>
        /\ rpc \in {"stdin", "failed"}
        /\ (rpc = "failed" => rerr = "ConfigurationError")
        /\ ~inst /\ ~guest
        /\ rstdio[1] = "unset"

\* run has returned ConfigurationError for a stdin that names a directory.
C6_Witness ==
    /\ StdinUnresolved
    /\ lookup(root, rcfg.stdio[1].path).kind = "Directory"
    /\ rpc = "failed" /\ rerr = "ConfigurationError"


(***************************************************************************)
(* Properties of the populate loop over every kind of path                 *)
(* (SpecPopulate).                                                         *)
(***************************************************************************)
\* The entry the last turn of the loop handed to populate.
LastEntry == TarEntries(archive)[vnext - 1]
Populated == comp = "populate" /\ vnext > 1

\* A regular file or directory with a component that is `.`, `..`, a root,
\* a prefix or not UTF-8.
BadPath(en) ==
    /\ en.typ \in {"Regular", "Directory"}
    /\ \E i \in 1..Len(en.path) : ~IsNormal(en.path[i]) \/ ~IsUtf8(en.path[i])

\* The names the tree holds, at any depth.
RECURSIVE TreeNames(_)
TreeNames(e) ==
    DOMAIN e.map \cup UNION {TreeNames(e.map[n]) : n \in DOMAIN e.map}

\* C15: populate returns InvalidInput for every regular file or directory
\* whose path has a component that is `.`, `..`, a root, a prefix or not
\* UTF-8, and every name in the tree is a Normal, UTF-8 component.
C15_PathValidation ==
    /\ (Populated /\ BadPath(LastEntry)) => vpc = "err"
    /\ \A n \in TreeNames(root) : IsNormal(n) /\ IsUtf8(n)

\* What the code does keep of C15: such an entry never leaves populate with
\* Ok, and no name of the tree is other than Normal and UTF-8.
PathNeverAccepted ==
    /\ (Populated /\ BadPath(LastEntry)) => vpc \in {"err", "panic"}
    /\ \A n \in TreeNames(root) : IsNormal(n) /\ IsUtf8(n)

\* populate has returned InvalidInput for an entry with such a path.
PathRejected == Populated /\ BadPath(LastEntry) /\ vpc = "err"

\* C22: whatever the entries of the archive, each populate call returns Ok
\* or an error without reaching an unreachable!() arm, and the root stays a
\* Directory.
C22_PopulateNeverPanics ==
    comp = "populate" => vpc # "panic" /\ root.kind = "Directory"


(***************************************************************************)
(* Properties of the calls on a populated tree (SpecFile).                 *)
(***************************************************************************)
\* C16: resize, pwrite and pwritev on a file always answer Inval, and once
\* the tree is populated no call (lookup, size, pread, preadv, pwrite,
\* pwritev, resize) changes the tree, a file's offset or the archive bytes.
C16_ReadOnly ==
    /\ [](wr.op \in {"resize", "pwrite", "pwritev"} => wr.err = "Inval" /\ wr.n = 0)
    /\ [][vpc = "ready" => root' = root /\ archive' = archive]_vars

\* A pwrite of a non-empty buffer was refused on a file that has bytes.
C16_Witness ==
    /\ vpc = "ready"
    /\ wr.op = "pwrite" /\ wr.len > 0 /\ wr.err = "Inval"
    /\ lookup(root, wr.path).kind = "File"
    /\ size(lookup(root, wr.path)) > 0


(***************************************************************************)
(* Properties of workload::run and of the exit of the loader (SpecRun).    *)
(***************************************************************************)
\* The populated root has no config.yaml.
NoConfigYaml == comp = "run" /\ "config.yaml" \notin DOMAIN root.map

\* C17: without a config.yaml at the root of the tree (an unbundled module
\* included), the module is instantiated with stdin, stdout and stderr each
\* inherited from the host.
C17_DefaultsInherit ==
    (NoConfigYaml /\ inst) =>
        \A i \in 1..3 : BuilderStream(rstdio[i]) = "inherit"

\* The root has a File config.yaml that is read in full and is not a
\* deployment configuration.
ConfigUnparsable ==
    /\ comp = "run"
    /\ "config.yaml" \in DOMAIN root.map
    /\ root.map["config.yaml"].kind = "File"
    /\ ~ReadConfig(root.map["config.yaml"]).err
    /\ ~ParseYaml(ReadConfig(root.map["config.yaml"]).bytes).ok

\* C18: when config.yaml is a File whose content is not a deployment
\* configuration, run returns ConfigurationError and no guest code runs.
C18_BadYamlConfigurationError ==
    (ConfigUnparsable /\ rpc \notin {"populate", "config", "panic"} /\ rerr # "IoError") =>
        /\ rpc = "failed" /\ rerr = "ConfigurationError"
        /\ ~inst /\ ~guest

\* C19: an instantiated module without a default export makes run return
\* ExportNotFound before any guest code is called, and a call that fails is
\* returned as CallFailed.
C19_ExportAndCall ==
    /\ [](rerr = "ExportNotFound" => rpc = "failed" /\ inst /\ ~guest)
    /\ [][rpc = "export" =>
            \/ rpc' = "call" /\ rerr' = ""
            \/ rpc' = "failed" /\ rerr' = "ExportNotFound" /\ ~guest']_vars
    /\ [][rpc = "call" => guest' /\ (rpc' = "failed" => rerr' = "CallFailed")]_vars

\* run has returned ExportNotFound for an instantiated module.
C19_Witness ==
    /\ comp = "run" /\ inst /\ ~guest
    /\ rpc = "failed" /\ rerr = "ExportNotFound"

\* The host file a File handle of stdout (2) or stderr (3) names has been
\* opened with create(true).truncate(true).
Created(i) == rstdio[i] = "osfile"

\* C23: when run returns an error raised before the guest is called, it has
\* created or truncated no host file named by a stdout or stderr File
\* handle.
C23_NoPartialState ==
    (comp = "run" /\ rpc = "failed" /\ ~guest) => ~Created(2) /\ ~Created(3)

\* C20: the loader exits with status 0 when run returns Ok and with status
\* 1 when run returns an error.
C20_ExitCodes ==
    /\ (exit # "none" /\ rpc = "returned") => exit = "0"
    /\ (exit # "none" /\ rpc = "failed") => exit = "1"


(***************************************************************************)
(* Properties of the key retrieval (SpecKey).                              *)
(***************************************************************************)
\* The second call returned a report shorter than the probe's hint, and the
\* buffer has been handed to the decoder.
ReportShrank ==
    /\ comp = "key"
    /\ key.pc \in {"panic", "some", "absent", "done"}
    /\ key.kind \in {"Sev", "Sgx"}
    /\ key.len < key.hint

\* C21: when the second attest call returns a length smaller than the hint,
\* the bytes decoded as the report are the first `length` bytes of the
\* buffer, the hint being only the size of the allocation.
C21_ShrunkReportDecoded ==
    ReportShrank => key.decoded = SubSeq(key.buf, 1, key.len)

\* The second call delivered a CBOR byte string that holds a PEM key.
KeyDelivered ==
    /\ key.kind \in {"Sev", "Sgx"}
    /\ CborDecode(SubSeq(key.buf, 1, key.len)).k = "Bytes"
    /\ IsPem(CborDecode(SubSeq(key.buf, 1, key.len)).bytes)

\* C24: whatever the attestation calls answer, generate_credentials does not
\* panic; it uses the retrieved key when one is validly delivered and
\* generates a fresh key otherwise.
C24_KeyAlwaysObtained ==
    comp = "key" =>
        /\ key.pc # "panic"
        /\ key.pc = "done" =>
              key.out = IF KeyDelivered THEN "retrieved" ELSE "generated"


=============================================================================
